---- MODULE Spec2Model ----
(***************************************************************************)
(* State-machine model of the DHI OSS usage tracker's refresh              *)
(* orchestration: the two trigger entry points (api.handleRefresh,         *)
(* api.TriggerRefresh), the background run (api.runRefresh), the fetch it  *)
(* drives (github.FetchAllProjects) and the sqlite store it writes         *)
(* (package db: refresh_jobs, projects, refresh_snapshots).                *)
(***************************************************************************)
EXTENDS Integers, Sequences, FiniteSets, TLC

(* ------------------------------------------------------------------ *)
(* Bounds and small input sets                                         *)
(* ------------------------------------------------------------------ *)

\* Cap on the number of rows of refresh_jobs (the AUTOINCREMENT id is unbounded).
MaxJobs == 2

\* The provider's content: the repositories it knows, the star counts its
\* metadata endpoint reports for each, and the repositories matching each of
\* the three queries (a response may hold any part of them).
Repos == {"a/x", "b/y"}

StarValues(repo) == IF repo = "a/x" THEN {1500} ELSE {300}

QueryMatches(q) ==
    CASE q = 1 -> {"a/x"}
      [] q = 2 -> {"a/x"}
      [] OTHER -> {"b/y"}

\* The two trigger origins: the HTTP handler and the scheduler's entry point.
Origins == {"manual", "scheduled"}

(* ------------------------------------------------------------------ *)
(* State                                                               *)
(* ------------------------------------------------------------------ *)

VARIABLES
    refreshRunning,  \* API.refreshRunning, guarded by API.refreshMu
    jobs,            \* table refresh_jobs: sequence of rows, id = index
    projects,        \* table projects: function from repo_full_name to row
    snapshots,       \* table refresh_snapshots: sequence of rows
    hpc,             \* position of each trigger call in flight, per origin
    reply,           \* the response a trigger call returned in the last step, if any
    runs,            \* the runRefresh goroutines alive: job id -> locals
    faults,          \* whether this behaviour's environment injects faults:
                     \* store calls may return an error, the process may crash
    up,              \* UpsertProject called on its own: the projects table row
                     \* by row, and the calls made so far
    fetch,           \* FetchAllProjects called on its own: its locals, the
                     \* elapsed time and the requests issued so far
    qry,             \* the read operations of the store called on their own:
                     \* a catalog, the clock and the last result
    dur,             \* parseDuration called on its own: input and result
    hist,            \* GetFileFirstCommit called on its own: the file's
                     \* history, the requests made and the result
    status,          \* a GET /api/refresh/status request beside the triggers
                     \* and runs: its position and its last response
    lk,              \* the handlers and the run step by step around the
                     \* mutex refreshMu: who holds it, who waits for what
    rsp,             \* a run response by response: the status and body of
                     \* each answer of the provider and what the run makes of it
    rd               \* a GET /api/stats request beside the upserts of a run:
                     \* GetStats query by query

vars == <<refreshRunning, jobs, projects, snapshots, hpc, reply, runs, faults, up, fetch,
          qry, dur, hist, status, lk, rsp, rd>>

(* ------------------------------------------------------------------ *)
(* Messages                                                            *)
(* ------------------------------------------------------------------ *)

MsgAlreadyInProgress == "Refresh already in progress"
MsgStarted == "Refresh started"
MsgInternalError == "Internal server error"
RetTrue == "true"
RetFalse == "false"

\* ctx.Err() after the deadline of context.WithTimeout has passed.
ErrDeadline == "context deadline exceeded"
\* doRequest's error for a non-200, non-403 response, or a json.Unmarshal error.
ErrAPI == "API error"

\* FetchAllProjects wraps the search error: fmt.Errorf("searching for dhi.io usage: %w", err).
WrapSearchErr(e) ==
    IF e = ErrDeadline
    THEN "searching for dhi.io usage: context deadline exceeded"
    ELSE "searching for dhi.io usage: API error"

\* The error texts that indicate a timeout.
TimeoutMessages ==
    {ErrDeadline, "searching for dhi.io usage: context deadline exceeded"}

(* ------------------------------------------------------------------ *)
(* The store (package db)                                              *)
(* ------------------------------------------------------------------ *)

\* CURRENT_TIMESTAMP, as a logical clock that advances with every job row
\* inserted; 0 stands for NULL in the timestamp columns.
CURRENT_TIMESTAMP == Len(jobs)

\* The ordered list of search queries (their names become source_type).
GetSearchQueries == <<"Dockerfiles", "YAML/K8s", "GitHub Actions">>

\* INSERT INTO refresh_jobs (status) VALUES ('pending'): the row appended.
CreateRefreshJob(js) ==
    Append(js, [status |-> "pending", started_at |-> 0, completed_at |-> 0,
                projects_found |-> 0, error_message |-> ""])

\* A variant of StartRefreshJob that stamps the row as finished at once
\* (pending -> completed); C5 is checked against it.
StartRefreshJob_Finishing(js, id, now) ==
    [js EXCEPT ![id] = [@ EXCEPT !.status = "completed", !.started_at = now]]

\* UPDATE refresh_jobs SET status = 'running', started_at = CURRENT_TIMESTAMP WHERE id = ?
StartRefreshJob(js, id, now) ==
    [js EXCEPT ![id] = [@ EXCEPT !.status = "running", !.started_at = now]]

\* UPDATE refresh_jobs SET status = 'completed', completed_at = ..., projects_found = ? WHERE id = ?
CompleteRefreshJob(js, id, projectsFound, now) ==
    [js EXCEPT ![id] = [@ EXCEPT !.status = "completed", !.completed_at = now,
                                 !.projects_found = projectsFound]]

\* UPDATE refresh_jobs SET status = 'failed', completed_at = ..., error_message = ? WHERE id = ?
FailRefreshJob(js, id, errMsg, now) ==
    [js EXCEPT ![id] = [@ EXCEPT !.status = "failed", !.completed_at = now,
                                 !.error_message = errMsg]]

\* A variant of UpsertProject that also purges the rows not seen at `now`;
\* C14 is checked against it.
UpsertProject_Purging(cat, p, now) ==
    LET kept == {n \in DOMAIN cat : cat[n].last_seen_at = now} \cup {p.RepoFullName} IN
    [n \in kept |->
        IF n = p.RepoFullName
        THEN [stars |-> p.Stars, source_type |-> p.SourceType,
              first_seen_at |-> IF n \in DOMAIN cat THEN cat[n].first_seen_at ELSE now,
              last_seen_at |-> now]
        ELSE cat[n]]

\* INSERT ... ON CONFLICT(repo_full_name) DO UPDATE SET stars, ..., source_type,
\* last_seen_at, updated_at: first_seen_at is written by the insert only.
UpsertProject(cat, p, now) ==
    IF p.RepoFullName \in DOMAIN cat
    THEN [cat EXCEPT ![p.RepoFullName] =
              [@ EXCEPT !.stars = p.Stars, !.source_type = p.SourceType,
                        !.last_seen_at = now]]
    ELSE cat @@ (p.RepoFullName :>
              [stars |-> p.Stars, source_type |-> p.SourceType,
               first_seen_at |-> now, last_seen_at |-> now])

EmptyMap == [n \in {} |-> 0]

\* No trigger call returned in this step.
NoReply == [origin |-> "", body |-> ""]

\* What a store call (db.Exec, db.QueryRow) may return: nil, or an error when
\* the environment injects faults.
StoreOutcomes == IF faults THEN BOOLEAN ELSE {TRUE}

RECURSIVE SumStars(_, _)
SumStars(cat, names) ==
    IF names = {} THEN 0
    ELSE LET n == CHOOSE x \in names : TRUE
         IN cat[n].stars + SumStars(cat, names \ {n})

\* A variant of GetStats whose second band has no upper limit; C21 is
\* checked against it.
GetStats_Overlapping(cat) ==
    [total_projects |-> Cardinality(DOMAIN cat),
     total_stars    |-> SumStars(cat, DOMAIN cat),
     popular_count  |-> Cardinality({n \in DOMAIN cat : cat[n].stars >= 1000}),
     notable_count  |-> Cardinality({n \in DOMAIN cat : cat[n].stars >= 100})]

\* The three SELECTs of GetStats.
GetStats(cat) ==
    [total_projects |-> Cardinality(DOMAIN cat),
     total_stars    |-> SumStars(cat, DOMAIN cat),
     popular_count  |-> Cardinality({n \in DOMAIN cat : cat[n].stars >= 1000}),
     notable_count  |-> Cardinality({n \in DOMAIN cat :
                                       cat[n].stars >= 100 /\ cat[n].stars < 1000})]

\* A variant of RecordSnapshot that takes its stats before the run's upserts,
\* as if on the empty catalog; C22 is checked against it.
RecordSnapshot_Early(snaps, cat) == Append(snaps, GetStats(EmptyMap))

\* RecordSnapshot: GetStats, then INSERT INTO refresh_snapshots.
RecordSnapshot(snaps, cat) == Append(snaps, GetStats(cat))

(* ------------------------------------------------------------------ *)
(* UpsertProject on the rows of table projects                         *)
(* ------------------------------------------------------------------ *)

\* Cap on the number of UpsertProject calls of one behaviour.
MaxUpserts == 3

\* The repository records handed to UpsertProject.
UpsertStars == {300, 1500}
UpsertURLs == {"https://github.com/o/r", "https://github.com/o2/r"}
\* The repository's metadata at two times (its stars, description and
\* language change together) and the two files it may have been matched by.
UpsertDetails ==
    { [Stars |-> st,
       Description |-> IF st = 300 THEN "a tool" ELSE "a popular tool",
       PrimaryLanguage |-> IF st = 300 THEN "Go" ELSE "Rust"] : st \in UpsertStars }
UpsertMatches ==
    { [DockerfilePath |-> "Dockerfile", FileURL |-> "blob/Dockerfile",
       SourceType |-> "Dockerfiles"],
      [DockerfilePath |-> "k8s/app.yaml", FileURL |-> "blob/k8s/app.yaml",
       SourceType |-> "YAML/K8s"] }
UpsertInputs ==
    { [RepoFullName |-> n, GitHubURL |-> u, Stars |-> d.Stars,
       Description |-> d.Description, PrimaryLanguage |-> d.PrimaryLanguage,
       DockerfilePath |-> m.DockerfilePath, FileURL |-> m.FileURL,
       SourceType |-> m.SourceType] :
      n \in Repos, u \in UpsertURLs, d \in UpsertDetails, m \in UpsertMatches }

\* The rows of tbl that the UNIQUE constraint on repo_full_name sets against
\* an insert of name.
Conflicts(tbl, name) == {i \in 1..Len(tbl) : tbl[i].repo_full_name = name}

\* The row the INSERT of UpsertProject writes (id = its index in the table).
InsertedRow(p, now) ==
    [repo_full_name |-> p.RepoFullName, github_url |-> p.GitHubURL,
     stars |-> p.Stars, description |-> p.Description,
     primary_language |-> p.PrimaryLanguage,
     dockerfile_path |-> p.DockerfilePath, file_url |-> p.FileURL,
     source_type |-> p.SourceType,
     first_seen_at |-> now, last_seen_at |-> now,
     created_at |-> now, updated_at |-> now]

\* A variant of the clause that also rewrites github_url; C37 is checked
\* against it.
ConflictUpdate_Relinking(row, p, now) ==
    [row EXCEPT !.github_url = p.GitHubURL,
                !.stars = p.Stars, !.description = p.Description,
                !.primary_language = p.PrimaryLanguage,
                !.dockerfile_path = p.DockerfilePath, !.file_url = p.FileURL,
                !.source_type = p.SourceType,
                !.last_seen_at = now, !.updated_at = now]

\* The DO UPDATE SET clause applied to the conflicting row.
ConflictUpdate(row, p, now) ==
    [row EXCEPT !.stars = p.Stars, !.description = p.Description,
                !.primary_language = p.PrimaryLanguage,
                !.dockerfile_path = p.DockerfilePath, !.file_url = p.FileURL,
                !.source_type = p.SourceType,
                !.last_seen_at = now, !.updated_at = now]

\* A variant of the statement whose conflict clause rewrites the whole row
\* (INSERT OR REPLACE); C12 is checked against it.
UpsertProjectRows_Replacing(tbl, p, now) ==
    [rows |-> IF Conflicts(tbl, p.RepoFullName) = {}
              THEN Append(tbl, InsertedRow(p, now))
              ELSE [i \in 1..Len(tbl) |->
                       IF i \in Conflicts(tbl, p.RepoFullName)
                       THEN InsertedRow(p, now) ELSE tbl[i]],
     err |-> ""]

\* A variant of the statement without its ON CONFLICT clause: the insert of
\* a name already there is refused; C13 is checked against it.
UpsertProjectRows_Plain(tbl, p, now) ==
    IF Conflicts(tbl, p.RepoFullName) = {}
    THEN [rows |-> Append(tbl, InsertedRow(p, now)), err |-> ""]
    ELSE [rows |-> tbl, err |-> "UNIQUE constraint failed: projects.repo_full_name"]

\* UpsertProject as the statement SQLite executes on the table's rows:
\* INSERT, or on a conflict on repo_full_name the DO UPDATE; the rows after
\* the call and the error it returns.
UpsertProjectRows(tbl, p, now) ==
    [rows |-> IF Conflicts(tbl, p.RepoFullName) = {}
              THEN Append(tbl, InsertedRow(p, now))
              ELSE [i \in 1..Len(tbl) |->
                       IF i \in Conflicts(tbl, p.RepoFullName)
                       THEN ConflictUpdate(tbl[i], p, now) ELSE tbl[i]],
     err |-> ""]

\* Before any call: an empty table at time 1. rows is the table, cat the same
\* catalog keyed by name (as the refresh model holds it), calls the calls made
\* (record and time), prev the rows before the last call, err its result.
NoUpserts ==
    [rows |-> <<>>, cat |-> [n \in {} |-> 0], clock |-> 1, calls |-> <<>>,
     prev |-> <<>>, err |-> ""]

\* One call db.UpsertProject(p), in the same second as the call before or in
\* a later one.
UpsertProject_Call ==
    /\ Len(up.calls) < MaxUpserts
    /\ \E p \in UpsertInputs, now \in {up.clock, up.clock + 1} :
         LET res == UpsertProjectRows(up.rows, p, now) IN
         up' = [rows |-> res.rows, cat |-> UpsertProject(up.cat, p, now),
                clock |-> now, calls |-> Append(up.calls, [p |-> p, at |-> now]),
                prev |-> up.rows, err |-> res.err]
    /\ UNCHANGED <<refreshRunning, jobs, projects, snapshots, hpc, reply, runs, faults, fetch, qry, dur, hist, status, lk, rsp, rd>>

(* ------------------------------------------------------------------ *)
(* The read operations of the store: GetStats, GetNewProjectsSince,    *)
(* GetNewProjectsCount                                                 *)
(* ------------------------------------------------------------------ *)

\* Number of UpsertProject calls that fill the catalog read from.
MaxRecords == 3

\* Repositories and star counts of the catalog read from: the star counts
\* lie on both sides of the two band limits of GetStats.
QueryRepos == {"a/x", "b/y", "c/z"}
QueryStars == {50, 100, 300, 999, 1000, 1500}

\* No read operation called yet: an empty catalog at second 1; sum is the
\* star total kept record by record, out the last result.
NoOutput == [op |-> "none"]
NoQueries == [cat |-> EmptyMap, now |-> 1, n |-> 0, sum |-> 0, out |-> NoOutput]

\* UpsertProject fills the catalog, in the same second as the call before
\* or in a later one.
Query_UpsertProject ==
    /\ qry.n < MaxRecords
    /\ \E name \in QueryRepos, st \in QueryStars, now \in {qry.now, qry.now + 1} :
         LET p == [RepoFullName |-> name, Stars |-> st, SourceType |-> "Dockerfiles"]
             old == IF name \in DOMAIN qry.cat THEN qry.cat[name].stars ELSE 0
         IN qry' = [cat |-> UpsertProject(qry.cat, p, now), now |-> now,
                    n |-> qry.n + 1, sum |-> qry.sum - old + st, out |-> NoOutput]
    /\ UNCHANGED <<refreshRunning, jobs, projects, snapshots, hpc, reply, runs, faults, up, fetch, dur, hist, status, lk, rsp, rd>>

\* db.GetStats() on the catalog.
GetStats_Call ==
    /\ qry.out.op # "GetStats"
    /\ qry' = [qry EXCEPT !.out = [op |-> "GetStats", stats |-> GetStats(qry.cat)]]
    /\ UNCHANGED <<refreshRunning, jobs, projects, snapshots, hpc, reply, runs, faults, up, fetch, dur, hist, status, lk, rsp, rd>>

\* No stats request: pc is the query GetStats comes to next, the other
\* fields are what its Scan calls have filled in.
NoReading ==
    [pc |-> "idle", total |-> 0, totalStars |-> 0, popular |-> 0, notable |-> 0]

\* handleStats calls GetStats, whose first QueryRow reads
\* COUNT(*), COALESCE(SUM(stars), 0) from the catalog as it is now.
GetStats_Total ==
    /\ rd.pc = "idle"
    /\ rd' = [NoReading EXCEPT !.pc = "popular",
                               !.total = GetStats(qry.cat).total_projects,
                               !.totalStars = GetStats(qry.cat).total_stars]
    /\ UNCHANGED <<refreshRunning, jobs, projects, snapshots, hpc, reply, runs, faults, up, fetch, qry, dur, hist, status, lk, rsp>>

\* The second QueryRow: COUNT(*) WHERE stars >= 1000, on the catalog as it
\* is now.
GetStats_Popular ==
    /\ rd.pc = "popular"
    /\ rd' = [rd EXCEPT !.pc = "notable",
                        !.popular = GetStats(qry.cat).popular_count]
    /\ UNCHANGED <<refreshRunning, jobs, projects, snapshots, hpc, reply, runs, faults, up, fetch, qry, dur, hist, status, lk, rsp>>

\* The third QueryRow: COUNT(*) WHERE stars >= 100 AND stars < 1000, on the
\* catalog as it is now; GetStats returns and handleStats encodes the four
\* numbers.
GetStats_Notable ==
    /\ rd.pc = "notable"
    /\ rd' = [rd EXCEPT !.pc = "done",
                        !.notable = GetStats(qry.cat).notable_count]
    /\ UNCHANGED <<refreshRunning, jobs, projects, snapshots, hpc, reply, runs, faults, up, fetch, qry, dur, hist, status, lk, rsp>>

\* WHERE first_seen_at > ?
FirstSeenAfter(cat, since) == {n \in DOMAIN cat : cat[n].first_seen_at > since}

\* A variant of GetNewProjectsCount that also counts the records first seen
\* at the given instant; C23 is checked against it.
GetNewProjectsCount_Inclusive(cat, since) ==
    Cardinality({n \in DOMAIN cat : cat[n].first_seen_at >= since})

\* SELECT COUNT(*) FROM projects WHERE first_seen_at > ?
GetNewProjectsCount(cat, since) == Cardinality(FirstSeenAfter(cat, since))

\* The rows.Next() loop of GetNewProjectsSince over the rows still to come,
\* ORDER BY first_seen_at DESC: every order the store may return rows of
\* equal first_seen_at in.
RECURSIVE ScanRows(_, _)
ScanRows(cat, rest) ==
    IF rest = {} THEN {<<>>}
    ELSE UNION {{<<n>> \o tl : tl \in ScanRows(cat, rest \ {n})} :
                n \in {m \in rest : \A k \in rest :
                          cat[k].first_seen_at <= cat[m].first_seen_at}}

\* GetNewProjectsSince(since): the slices it may return.
GetNewProjectsSince(cat, since) == ScanRows(cat, FirstSeenAfter(cat, since))

\* GetNewProjectsSince(t) and GetNewProjectsCount(t) on the same catalog.
GetNewProjects_Call ==
    /\ qry.out.op # "GetNewProjects"
    /\ \E t \in 0..qry.now : \E ps \in GetNewProjectsSince(qry.cat, t) :
         qry' = [qry EXCEPT !.out = [op |-> "GetNewProjects", since |-> t,
                                     projects |-> ps,
                                     count |-> GetNewProjectsCount(qry.cat, t)]]
    /\ UNCHANGED <<refreshRunning, jobs, projects, snapshots, hpc, reply, runs, faults, up, fetch, dur, hist, status, lk, rsp, rd>>

QueryNext ==
    \/ Query_UpsertProject
    \/ GetStats_Call
    \/ GetNewProjects_Call

(* ------------------------------------------------------------------ *)
(* parseDuration                                                       *)
(* ------------------------------------------------------------------ *)

\* Longest string handed to parseDuration.
MaxLen == 3

\* Strings are sequences of characters; the characters tried.
Digits == <<"0", "2", "3", "5", "7">>
DurationChars == {Digits[i] : i \in 1..Len(Digits)} \cup {"-", "+", "d", "w", "h", "x", "y", "z"}
DurationStrings == UNION {[1..n -> DurationChars] : n \in 0..MaxLen}

IsDigit(c) == \E i \in 1..Len(Digits) : Digits[i] = c
DigitValue(c) == CASE c = "0" -> 0 [] c = "2" -> 2 [] c = "3" -> 3
                   [] c = "5" -> 5 [] c = "7" -> 7

\* The number a string of digits denotes in base 10.
RECURSIVE Decimal(_)
Decimal(ds) ==
    IF ds = <<>> THEN 0
    ELSE 10 * Decimal(SubSeq(ds, 1, Len(ds) - 1)) + DigitValue(ds[Len(ds)])

\* strconv.Atoi: an optional sign, then one or more decimal digits.
Atoi(str) ==
    LET signed == str # <<>> /\ str[1] \in {"-", "+"}
        ds == IF signed THEN SubSeq(str, 2, Len(str)) ELSE str
    IN IF ds = <<>> \/ \E i \in 1..Len(ds) : ~IsDigit(ds[i])
       THEN [ok |-> FALSE, value |-> 0]
       ELSE [ok |-> TRUE,
             value |-> IF signed /\ str[1] = "-" THEN 0 - Decimal(ds) ELSE Decimal(ds)]

ErrInvalidDuration == "invalid duration"
ErrInvalidValue == "invalid duration value"
ErrInvalidUnit == "invalid duration unit"

\* parseDuration(s): the duration in hours and the error ("" for nil).
parseDuration(str) ==
    IF Len(str) < 2 THEN [hours |-> 0, err |-> ErrInvalidDuration]
    ELSE LET unit == str[Len(str)]
             num == Atoi(SubSeq(str, 1, Len(str) - 1))
         IN IF ~num.ok THEN [hours |-> 0, err |-> ErrInvalidValue]
            ELSE CASE unit = "d" -> [hours |-> num.value * 24, err |-> ""]
                   [] unit = "w" -> [hours |-> num.value * 7 * 24, err |-> ""]
                   [] unit = "h" -> [hours |-> num.value, err |-> ""]
                   [] OTHER -> [hours |-> 0, err |-> ErrInvalidUnit]

NoDuration == [pc |-> "none"]

\* One call parseDuration(s), as handleNewProjects makes it with the value
\* of the request's since parameter.
parseDuration_Call ==
    /\ dur.pc = "none"
    /\ \E str \in DurationStrings :
         dur' = [pc |-> "returned", s |-> str, res |-> parseDuration(str)]
    /\ UNCHANGED <<refreshRunning, jobs, projects, snapshots, hpc, reply, runs, faults, up, fetch, qry, hist, status, lk, rsp, rd>>

(* ------------------------------------------------------------------ *)
(* GetFileFirstCommit                                                  *)
(* ------------------------------------------------------------------ *)

\* Longest commit history of a file.
MaxHistory == 102

\* per_page of the first and of the second request.
ProbePageSize == 1
CommitsPageSize == 100

ErrNoCommits == "no commits found for file"

\* The i-th commit of the file's history, 1 the oldest.
CommitInfo(i) == [SHA |-> i, Date |-> i, HTMLURL |-> i]

\* GET /repos/{repo}/commits?path=..&per_page=n on a history of k commits:
\* newest first; a provider that honours per_page returns the first n of
\* them, one that does not returns its own page of them.
CommitsPage(k, n, honours) ==
    LET len == IF honours THEN (IF k < n THEN k ELSE n)
               ELSE (IF k < CommitsPageSize THEN k ELSE CommitsPageSize)
    IN [i \in 1..len |-> CommitInfo(k + 1 - i)]

\* &AdoptionInfo{Date, CommitSHA, CommitURL} of a commit.
AdoptionInfo(c) == [Date |-> c.Date, CommitSHA |-> c.SHA, CommitURL |-> c.HTMLURL]
NoAdoption == [Date |-> 0, CommitSHA |-> 0, CommitURL |-> 0]

NoHistory == [pc |-> "none"]

\* A call GetFileFirstCommit(ctx, repo, path) for a file with k commits.
GetFileFirstCommit_Call ==
    /\ hist.pc = "none"
    /\ \E k \in 0..MaxHistory, honours \in BOOLEAN :
         hist' = [pc |-> "probe", k |-> k, honours |-> honours, requests |-> <<>>,
                  res |-> NoAdoption, err |-> ""]
    /\ UNCHANGED <<refreshRunning, jobs, projects, snapshots, hpc, reply, runs, faults, up, fetch, qry, dur, status, lk, rsp, rd>>

HistoryReturned(h, info, e) == [h EXCEPT !.pc = "returned", !.res = info, !.err = e]

\* A variant of the test `len(commits) == 1` that never holds; C25 is
\* checked against it.
OnlyOneCommit_Never(commits) == FALSE

\* if len(commits) == 1
OnlyOneCommit(commits) == Len(commits) = 1

\* The first request, per_page=1, and what follows from its answer.
GetFileFirstCommit_Probe ==
    /\ hist.pc = "probe"
    /\ LET h == [hist EXCEPT !.requests = Append(@, ProbePageSize)]
           commits == CommitsPage(hist.k, ProbePageSize, hist.honours)
       IN \/ hist' = HistoryReturned(h, NoAdoption, ErrAPI)
          \/ hist' = IF Len(commits) = 0 THEN HistoryReturned(h, NoAdoption, ErrNoCommits)
                     ELSE IF OnlyOneCommit(commits)
                          THEN HistoryReturned(h, AdoptionInfo(commits[1]), "")
                          ELSE [h EXCEPT !.pc = "page"]
    /\ UNCHANGED <<refreshRunning, jobs, projects, snapshots, hpc, reply, runs, faults, up, fetch, qry, dur, status, lk, rsp, rd>>

\* The second request, per_page=100: the last element of its answer.
GetFileFirstCommit_Page ==
    /\ hist.pc = "page"
    /\ LET h == [hist EXCEPT !.requests = Append(@, CommitsPageSize)]
           commits == CommitsPage(hist.k, CommitsPageSize, hist.honours)
       IN \/ hist' = HistoryReturned(h, NoAdoption, ErrAPI)
          \/ hist' = IF Len(commits) = 0 THEN HistoryReturned(h, NoAdoption, ErrNoCommits)
                     ELSE HistoryReturned(h, AdoptionInfo(commits[Len(commits)]), "")
    /\ UNCHANGED <<refreshRunning, jobs, projects, snapshots, hpc, reply, runs, faults, up, fetch, qry, dur, status, lk, rsp, rd>>

HistoryNext ==
    \/ GetFileFirstCommit_Call
    \/ GetFileFirstCommit_Probe
    \/ GetFileFirstCommit_Page

(* ------------------------------------------------------------------ *)
(* handleRefreshStatus (GET /api/refresh/status)                       *)
(* ------------------------------------------------------------------ *)

\* No status request yet: none in flight, none answered.
NoStatusResponse == [is_running |-> FALSE, last_job |-> "unanswered"]
NoStatus == [pc |-> "idle", isRunning |-> FALSE, resp |-> NoStatusResponse]

\* GetLatestRefreshJob: the status of the row with the greatest id, "nil"
\* when the table is empty.
GetLatestRefreshJob(js) == IF js = <<>> THEN "nil" ELSE js[Len(js)].status

\* refreshMu.Lock(); isRunning := a.refreshRunning; refreshMu.Unlock()
handleRefreshStatus_ReadFlag ==
    /\ status.pc = "idle"
    /\ status' = [pc |-> "job", isRunning |-> refreshRunning, resp |-> NoStatusResponse]
    /\ reply' = NoReply
    /\ UNCHANGED <<refreshRunning, jobs, projects, snapshots, hpc, runs, faults, up, fetch, qry, dur, hist, lk, rsp, rd>>

\* job, err := a.db.GetLatestRefreshJob(), then the response is written.
handleRefreshStatus_Respond ==
    /\ status.pc = "job"
    /\ status' = [pc |-> "idle", isRunning |-> FALSE,
                  resp |-> [is_running |-> status.isRunning,
                            last_job |-> GetLatestRefreshJob(jobs)]]
    /\ reply' = NoReply
    /\ UNCHANGED <<refreshRunning, jobs, projects, snapshots, hpc, runs, faults, up, fetch, qry, dur, hist, lk, rsp, rd>>


(* ------------------------------------------------------------------ *)
(* The mutex refreshMu: handlers and run, one operation at a time      *)
(* ------------------------------------------------------------------ *)

\* The requests in flight beside the run: the two triggers, a status
\* request and a listing request (handleProjects).
Requests == Origins \cup {"status", "list"}

\* Nothing in flight: the mutex free, the flag clear, no goroutine; across
\* collects who performed a store or network operation while holding the mutex.
NoLocking ==
    [mu |-> "", flag |-> FALSE, pc |-> [p \in Requests |-> "idle"],
     run |-> "none", across |-> {}]

\* p performs a store or network operation.
Operates(l, p) == IF l.mu = p THEN [l EXCEPT !.across = @ \cup {p}] ELSE l

\* A trigger comes in: the POST request or the scheduler's call.
Trigger_Arrive(o) ==
    /\ lk.pc[o] = "idle"
    /\ lk' = [lk EXCEPT !.pc[o] = "lock"]
    /\ UNCHANGED <<refreshRunning, jobs, projects, snapshots, hpc, reply, runs, faults, up, fetch, qry, dur, hist, status, rsp, rd>>

\* a.refreshMu.Lock() at the head of handleRefresh / TriggerRefresh.
Trigger_Lock(o) ==
    /\ lk.pc[o] = "lock"
    /\ lk.mu = ""
    /\ lk' = [lk EXCEPT !.mu = o, !.pc[o] = "locked"]
    /\ UNCHANGED <<refreshRunning, jobs, projects, snapshots, hpc, reply, runs, faults, up, fetch, qry, dur, hist, status, rsp, rd>>

\* if a.refreshRunning { Unlock; answer declined; return }; else set it.
Trigger_Test(o) ==
    /\ lk.pc[o] = "locked"
    /\ lk' = IF lk.flag
             THEN [lk EXCEPT !.mu = "", !.pc[o] = "idle"]
             ELSE [lk EXCEPT !.flag = TRUE, !.pc[o] = "set"]
    /\ UNCHANGED <<refreshRunning, jobs, projects, snapshots, hpc, reply, runs, faults, up, fetch, qry, dur, hist, status, rsp, rd>>

\* A variant that goes on to the store without releasing the mutex; C30 is
\* checked against it.
Trigger_Unlock_Late(o) ==
    /\ lk.pc[o] = "set"
    /\ lk' = [lk EXCEPT !.pc[o] = "create"]
    /\ UNCHANGED <<refreshRunning, jobs, projects, snapshots, hpc, reply, runs, faults, up, fetch, qry, dur, hist, status, rsp, rd>>

\* a.refreshMu.Unlock() after the flag is set.
Trigger_Unlock(o) ==
    /\ lk.pc[o] = "set"
    /\ lk' = [lk EXCEPT !.mu = "", !.pc[o] = "create"]
    /\ UNCHANGED <<refreshRunning, jobs, projects, snapshots, hpc, reply, runs, faults, up, fetch, qry, dur, hist, status, rsp, rd>>

\* a.db.CreateRefreshJob(): a store operation, which may fail.
Trigger_CreateJob(o) ==
    /\ lk.pc[o] = "create"
    /\ \E ok \in BOOLEAN :
         lk' = [Operates(lk, o) EXCEPT !.pc[o] = IF ok THEN "go" ELSE "relock"]
    /\ UNCHANGED <<refreshRunning, jobs, projects, snapshots, hpc, reply, runs, faults, up, fetch, qry, dur, hist, status, rsp, rd>>

\* go a.runRefresh(jobID, source), then the answer: the call returns.
Trigger_Go(o) ==
    /\ lk.pc[o] = "go"
    /\ lk' = [lk EXCEPT !.pc[o] = "idle", !.run = "start"]
    /\ UNCHANGED <<refreshRunning, jobs, projects, snapshots, hpc, reply, runs, faults, up, fetch, qry, dur, hist, status, rsp, rd>>

\* The error path: a.refreshMu.Lock() again.
Trigger_Relock(o) ==
    /\ lk.pc[o] = "relock"
    /\ lk.mu = ""
    /\ lk' = [lk EXCEPT !.mu = o, !.pc[o] = "clearing"]
    /\ UNCHANGED <<refreshRunning, jobs, projects, snapshots, hpc, reply, runs, faults, up, fetch, qry, dur, hist, status, rsp, rd>>

\* a.refreshRunning = false; Unlock; answer the failure.
Trigger_Clear(o) ==
    /\ lk.pc[o] = "clearing"
    /\ lk' = [lk EXCEPT !.flag = FALSE, !.mu = "", !.pc[o] = "idle"]
    /\ UNCHANGED <<refreshRunning, jobs, projects, snapshots, hpc, reply, runs, faults, up, fetch, qry, dur, hist, status, rsp, rd>>

\* handleRefreshStatus: the GET request comes in.
Status_Arrive ==
    /\ lk.pc["status"] = "idle"
    /\ lk' = [lk EXCEPT !.pc["status"] = "lock"]
    /\ UNCHANGED <<refreshRunning, jobs, projects, snapshots, hpc, reply, runs, faults, up, fetch, qry, dur, hist, status, rsp, rd>>

\* a.refreshMu.Lock().
Status_Lock ==
    /\ lk.pc["status"] = "lock"
    /\ lk.mu = ""
    /\ lk' = [lk EXCEPT !.mu = "status", !.pc["status"] = "locked"]
    /\ UNCHANGED <<refreshRunning, jobs, projects, snapshots, hpc, reply, runs, faults, up, fetch, qry, dur, hist, status, rsp, rd>>

\* isRunning := a.refreshRunning; a.refreshMu.Unlock().
Status_Read ==
    /\ lk.pc["status"] = "locked"
    /\ lk' = [lk EXCEPT !.mu = "", !.pc["status"] = "job"]
    /\ UNCHANGED <<refreshRunning, jobs, projects, snapshots, hpc, reply, runs, faults, up, fetch, qry, dur, hist, status, rsp, rd>>

\* a.db.GetLatestRefreshJob(), then the answer.
Status_GetJob ==
    /\ lk.pc["status"] = "job"
    /\ lk' = [Operates(lk, "status") EXCEPT !.pc["status"] = "idle"]
    /\ UNCHANGED <<refreshRunning, jobs, projects, snapshots, hpc, reply, runs, faults, up, fetch, qry, dur, hist, status, rsp, rd>>

\* handleProjects: the request arrives and its filter is parsed.
List_Begin ==
    /\ lk.pc["list"] = "idle"
    /\ lk' = [lk EXCEPT !.pc["list"] = "query"]
    /\ UNCHANGED <<refreshRunning, jobs, projects, snapshots, hpc, reply, runs, faults, up, fetch, qry, dur, hist, status, rsp, rd>>

\* a.db.ListProjects(filter), then the answer.
List_Query ==
    /\ lk.pc["list"] = "query"
    /\ lk' = [Operates(lk, "list") EXCEPT !.pc["list"] = "idle"]
    /\ UNCHANGED <<refreshRunning, jobs, projects, snapshots, hpc, reply, runs, faults, up, fetch, qry, dur, hist, status, rsp, rd>>

\* runRefresh: a.db.StartRefreshJob(jobID); on error straight to the
\* deferred function.
Run_StartJob ==
    /\ lk.run = "start"
    /\ \E ok \in BOOLEAN :
         lk' = [Operates(lk, "run") EXCEPT !.run = IF ok THEN "fetch" ELSE "defer"]
    /\ UNCHANGED <<refreshRunning, jobs, projects, snapshots, hpc, reply, runs, faults, up, fetch, qry, dur, hist, status, rsp, rd>>

\* a.ghClient.FetchAllProjects(ctx, nil) returns: up to ten minutes of
\* network operations.
Run_Fetch ==
    /\ lk.run = "fetch"
    /\ lk' = [Operates(lk, "run") EXCEPT !.run = "store"]
    /\ UNCHANGED <<refreshRunning, jobs, projects, snapshots, hpc, reply, runs, faults, up, fetch, qry, dur, hist, status, rsp, rd>>

\* FailRefreshJob, or the upserts, CompleteRefreshJob and RecordSnapshot.
Run_Store ==
    /\ lk.run = "store"
    /\ lk' = [Operates(lk, "run") EXCEPT !.run = "defer"]
    /\ UNCHANGED <<refreshRunning, jobs, projects, snapshots, hpc, reply, runs, faults, up, fetch, qry, dur, hist, status, rsp, rd>>

\* The deferred function: a.refreshMu.Lock().
Run_DeferLock ==
    /\ lk.run = "defer"
    /\ lk.mu = ""
    /\ lk' = [lk EXCEPT !.mu = "run", !.run = "deferred"]
    /\ UNCHANGED <<refreshRunning, jobs, projects, snapshots, hpc, reply, runs, faults, up, fetch, qry, dur, hist, status, rsp, rd>>

\* a.refreshRunning = false; a.refreshMu.Unlock(); the goroutine ends.
Run_DeferClear ==
    /\ lk.run = "deferred"
    /\ lk' = [lk EXCEPT !.flag = FALSE, !.mu = "", !.run = "none"]
    /\ UNCHANGED <<refreshRunning, jobs, projects, snapshots, hpc, reply, runs, faults, up, fetch, qry, dur, hist, status, rsp, rd>>

(* ------------------------------------------------------------------ *)
(* The provider's responses: doRequest and what its callers make of    *)
(* the status and the body                                             *)
(* ------------------------------------------------------------------ *)

\* A bound on the cooldowns of one run (the code has none).
MaxCooldowns == 2

\* Texts are sequences of words. The HTTP statuses and the bodies a response
\* may carry: a JSON document, a JSON document holding the words "rate
\* limited", those words in plain text, and a page that is no JSON at all.
Statuses == {200, 403, 404, 500}
Bodies ==
    { <<"{", "}">>, <<"{", "rate", "limited", "}">>,
      <<"rate", "limited">>, <<"<html>">> }

\* The repositories the search request of this run names.
ResponseRepos == {"a/x", "b/y"}

\* details.FullName in the answer to the lookup of name: the name asked for,
\* or the present name of a repository that was renamed (a/x is the former
\* name of b/y; the provider answers for both).
FullNames(name) == IF name = "a/x" THEN {"a/x", "b/y"} ELSE {name}

\* strings.Contains(s, sub).
Contains(s, sub) ==
    \E i \in 1..(Len(s) - Len(sub) + 1) : SubSeq(s, i, i + Len(sub) - 1) = sub

\* json.Unmarshal(body, &v): nil for a JSON document, else a syntax error,
\* whose text quotes at most one character of the body.
ErrSyntax == <<"invalid", "character">>
Unmarshal(body) ==
    IF Len(body) >= 2 /\ body[1] = "{" /\ body[Len(body)] = "}"
    THEN <<>> ELSE ErrSyntax

\* doRequest once the response has been read: the body and a nil error
\* (<<>>) for 200, else an error whose text ends with the body.
doRequest(st, body) ==
    IF st = 403
    THEN [body |-> <<>>, err |-> <<"rate", "limited", ":">> \o body]
    ELSE IF st # 200
         THEN [body |-> <<>>, err |-> <<"API", "error", ToString(st), ":">> \o body]
         ELSE [body |-> body, err |-> <<>>]

\* GetRepoDetails on a response: doRequest's error, else Unmarshal's.
GetRepoDetails(st, body) ==
    LET r == doRequest(st, body) IN
    IF r.err # <<>> THEN r.err ELSE Unmarshal(r.body)

\* No run: st and body are the latest response, projects the slice that
\* FetchAllProjects builds (repo the name searched, RepoFullName from the
\* details), err what it returned, job and found the status and
\* projects_found of the run's job, upserted the names whose records the run
\* inserted or updated in the catalog.
NoResponses ==
    [pc |-> "none", st |-> 0, body |-> <<>>, cur |-> "", done |-> {},
     projects |-> <<>>, skipped |-> {}, err |-> <<>>, cooldowns |-> 0,
     job |-> "", found |-> 0, upserted |-> {}]

\* runRefresh starts the job and calls FetchAllProjects.
runRefresh_Begin ==
    /\ rsp.pc = "none"
    /\ rsp' = [rsp EXCEPT !.pc = "search", !.job = "running"]
    /\ UNCHANGED <<refreshRunning, jobs, projects, snapshots, hpc, reply, runs, faults, up, fetch, qry, dur, hist, status, lk, rd>>

\* SearchDHIUsage on the response to its request: "rate limited" in the
\* error text leads to the cooldown, another error and an Unmarshal error
\* are returned, else the items are merged.
SearchDHIUsage_Reply ==
    /\ rsp.pc = "search"
    /\ \E st \in Statuses, body \in Bodies :
         LET r == doRequest(st, body)
             a == [rsp EXCEPT !.st = st, !.body = body] IN
         IF r.err # <<>>
         THEN IF Contains(r.err, <<"rate", "limited">>)
              THEN /\ rsp.cooldowns < MaxCooldowns
                   /\ rsp' = [a EXCEPT !.pc = "searchCooldown"]
              ELSE rsp' = [a EXCEPT !.pc = "returned", !.err = r.err]
         ELSE IF Unmarshal(r.body) # <<>>
              THEN rsp' = [a EXCEPT !.pc = "returned", !.err = Unmarshal(r.body)]
              ELSE rsp' = [a EXCEPT !.pc = "enrich"]
    /\ UNCHANGED <<refreshRunning, jobs, projects, snapshots, hpc, reply, runs, faults, up, fetch, qry, dur, hist, status, lk, rd>>

\* time.Sleep(60 * time.Second); continue.
SearchDHIUsage_Wait ==
    /\ rsp.pc = "searchCooldown"
    /\ rsp' = [rsp EXCEPT !.pc = "search", !.cooldowns = @ + 1]
    /\ UNCHANGED <<refreshRunning, jobs, projects, snapshots, hpc, reply, runs, faults, up, fetch, qry, dur, hist, status, lk, rd>>

\* The loop over the repositories found: the next one, or the return of
\* (projects, nil) after the last.
FetchAllProjects_Range ==
    /\ rsp.pc = "enrich"
    /\ IF ResponseRepos \ rsp.done = {}
       THEN rsp' = [rsp EXCEPT !.pc = "returned"]
       ELSE \E n \in ResponseRepos \ rsp.done :
              rsp' = [rsp EXCEPT !.pc = "lookup", !.cur = n]
    /\ UNCHANGED <<refreshRunning, jobs, projects, snapshots, hpc, reply, runs, faults, up, fetch, qry, dur, hist, status, lk, rd>>

\* The end of an iteration: the repository appended, or left out by
\* `continue`.
Kept(a, fullName) ==
    [a EXCEPT !.pc = "enrich", !.done = @ \cup {a.cur},
              !.projects = Append(@, [repo |-> a.cur, RepoFullName |-> fullName]),
              !.cur = ""]
Dropped(a) ==
    [a EXCEPT !.pc = "enrich", !.done = @ \cup {a.cur},
              !.skipped = @ \cup {a.cur}, !.cur = ""]

\* A variant in which an error of the first lookup that is not "rate
\* limited" ends the whole fetch; C34 is checked against it.
FetchAllProjects_Failed_Aborting(a, err) ==
    [a EXCEPT !.pc = "returned", !.err = err, !.projects = <<>>]

\* The first lookup failed with an error that is not "rate limited": log and
\* continue.
FetchAllProjects_Failed(a, err) == Dropped(a)

\* The response to GetRepoDetails: "rate limited" in the error text leads
\* to the cooldown and the retry, another error skips the repository.
FetchAllProjects_Reply ==
    /\ rsp.pc = "lookup"
    /\ \E st \in Statuses, body \in Bodies :
         LET err == GetRepoDetails(st, body)
             a == [rsp EXCEPT !.st = st, !.body = body] IN
         IF err # <<>>
         THEN IF Contains(err, <<"rate", "limited">>)
              THEN /\ rsp.cooldowns < MaxCooldowns
                   /\ rsp' = [a EXCEPT !.pc = "lookupCooldown"]
              ELSE rsp' = FetchAllProjects_Failed(a, err)
         ELSE \E fn \in FullNames(rsp.cur) : rsp' = Kept(a, fn)
    /\ UNCHANGED <<refreshRunning, jobs, projects, snapshots, hpc, reply, runs, faults, up, fetch, qry, dur, hist, status, lk, rd>>

\* time.Sleep(60 * time.Second) before the retry.
FetchAllProjects_Wait ==
    /\ rsp.pc = "lookupCooldown"
    /\ rsp' = [rsp EXCEPT !.pc = "retry", !.cooldowns = @ + 1]
    /\ UNCHANGED <<refreshRunning, jobs, projects, snapshots, hpc, reply, runs, faults, up, fetch, qry, dur, hist, status, lk, rd>>

\* The response to the retry: any error skips the repository.
FetchAllProjects_RetryReply ==
    /\ rsp.pc = "retry"
    /\ \E st \in Statuses, body \in Bodies :
         LET a == [rsp EXCEPT !.st = st, !.body = body] IN
         IF GetRepoDetails(st, body) # <<>>
         THEN rsp' = Dropped(a)
         ELSE \E fn \in FullNames(rsp.cur) : rsp' = Kept(a, fn)
    /\ UNCHANGED <<refreshRunning, jobs, projects, snapshots, hpc, reply, runs, faults, up, fetch, qry, dur, hist, status, lk, rd>>

\* runRefresh after FetchAllProjects: FailRefreshJob and return on an error,
\* else UpsertProject for each element of the slice (an error of the call is
\* only logged: failed are the elements whose call returned one) and
\* CompleteRefreshJob(jobID, len(projects)).
runRefresh_End ==
    /\ rsp.pc = "returned"
    /\ IF rsp.err # <<>>
       THEN rsp' = [rsp EXCEPT !.pc = "ended", !.job = "failed"]
       ELSE \E failed \in SUBSET (1..Len(rsp.projects)) :
              rsp' = [rsp EXCEPT
                  !.pc = "ended", !.job = "completed",
                  !.found = Len(rsp.projects),
                  !.upserted = {rsp.projects[i].RepoFullName :
                                   i \in (1..Len(rsp.projects)) \ failed}]
    /\ UNCHANGED <<refreshRunning, jobs, projects, snapshots, hpc, reply, runs, faults, up, fetch, qry, dur, hist, status, lk, rd>>

(* ------------------------------------------------------------------ *)
(* Initial state: New(database, ghClient) on a freshly migrated store  *)
(* ------------------------------------------------------------------ *)

\* No FetchAllProjects call on its own is under way.
NoFetch == [pc |-> "none"]
Response(o, b) == [origin |-> o, body |-> b]

Fresh ==
    /\ refreshRunning = FALSE
    /\ jobs = <<>>
    /\ projects = EmptyMap
    /\ snapshots = <<>>
    /\ hpc = [o \in Origins |-> "idle"]
    /\ reply = NoReply
    /\ runs = EmptyMap
    /\ up = NoUpserts
    /\ fetch = NoFetch
    /\ qry = NoQueries
    /\ dur = NoDuration
    /\ hist = NoHistory
    /\ status = NoStatus
    /\ lk = NoLocking
    /\ rsp = NoResponses
    /\ rd = NoReading

Init == Fresh /\ faults = TRUE

\* The same start in an environment whose store never fails and whose
\* process never crashes.
InitReliable == Fresh /\ faults = FALSE

\* go a.runRefresh(jobID, source): the locals of the new goroutine.
NewRun ==
    [pc |-> "start", expiredAt |-> "", q |-> 1, repos |-> EmptyMap,
     cur |-> "", done |-> {}, projects |-> <<>>, i |-> 1, err |-> "",
     snap |-> FALSE, skipped |-> {}]

Spawn(rs, jobID) == rs @@ (jobID :> NewRun)

(* ------------------------------------------------------------------ *)
(* Manual trigger: api.handleRefresh (POST /api/refresh)               *)
(* ------------------------------------------------------------------ *)

\* A variant of the handler's first step that takes the flag without
\* testing it; C2 is checked against it.
handleRefresh_Check_Untested ==
    /\ hpc["manual"] = "idle"
    /\ Len(jobs) < MaxJobs
    /\ refreshRunning' = TRUE
    /\ hpc' = [hpc EXCEPT !["manual"] = "create"]
    /\ reply' = NoReply
    /\ UNCHANGED <<jobs, projects, snapshots, runs, faults, up, fetch, qry, dur, hist, status, lk, rsp, rd>>

\* Lock; if refreshRunning, answer "already in progress"; else set it; unlock.
handleRefresh_Check ==
    /\ hpc["manual"] = "idle"
    /\ IF refreshRunning
       THEN /\ reply' = Response("manual", MsgAlreadyInProgress)
            /\ UNCHANGED <<refreshRunning, jobs, projects, snapshots, hpc, runs, faults, up, fetch, qry, dur, hist, status, lk, rsp, rd>>
       ELSE /\ Len(jobs) < MaxJobs
            /\ refreshRunning' = TRUE
            /\ hpc' = [hpc EXCEPT !["manual"] = "create"]
            /\ reply' = NoReply
            /\ UNCHANGED <<jobs, projects, snapshots, runs, faults, up, fetch, qry, dur, hist, status, lk, rsp, rd>>

\* CreateRefreshJob, then either `go a.runRefresh(jobID, "manual")` and the
\* success response, or (store error) on to the flag reset.
handleRefresh_Create ==
    /\ hpc["manual"] = "create"
    /\ \E ok \in StoreOutcomes :
         IF ok
         THEN /\ jobs' = CreateRefreshJob(jobs)
              /\ runs' = Spawn(runs, Len(jobs) + 1)
              /\ reply' = Response("manual", MsgStarted)
              /\ hpc' = [hpc EXCEPT !["manual"] = "idle"]
              /\ UNCHANGED <<refreshRunning, projects, snapshots, faults, up, fetch, qry, dur, hist, status, lk, rsp, rd>>
         ELSE /\ hpc' = [hpc EXCEPT !["manual"] = "unflag"]
              /\ reply' = NoReply
              /\ UNCHANGED <<refreshRunning, jobs, projects, snapshots, runs, faults, up, fetch, qry, dur, hist, status, lk, rsp, rd>>

\* A variant of the error path that answers without clearing the flag; C28
\* is checked against it.
handleRefresh_Unflag_Keeping ==
    /\ hpc["manual"] = "unflag"
    /\ reply' = Response("manual", MsgInternalError)
    /\ hpc' = [hpc EXCEPT !["manual"] = "idle"]
    /\ UNCHANGED <<refreshRunning, jobs, projects, snapshots, runs, faults, up, fetch, qry, dur, hist, status, lk, rsp, rd>>

\* The error path of CreateRefreshJob: lock, clear the flag, unlock, HTTP 500.
handleRefresh_Unflag ==
    /\ hpc["manual"] = "unflag"
    /\ refreshRunning' = FALSE
    /\ reply' = Response("manual", MsgInternalError)
    /\ hpc' = [hpc EXCEPT !["manual"] = "idle"]
    /\ UNCHANGED <<jobs, projects, snapshots, runs, faults, up, fetch, qry, dur, hist, status, lk, rsp, rd>>

(* ------------------------------------------------------------------ *)
(* Scheduled trigger: api.TriggerRefresh(source)                       *)
(* ------------------------------------------------------------------ *)

\* Lock; if refreshRunning, log and return false; else set it; unlock.
TriggerRefresh_Check ==
    /\ hpc["scheduled"] = "idle"
    /\ IF refreshRunning
       THEN /\ reply' = Response("scheduled", RetFalse)
            /\ UNCHANGED <<refreshRunning, jobs, projects, snapshots, hpc, runs, faults, up, fetch, qry, dur, hist, status, lk, rsp, rd>>
       ELSE /\ Len(jobs) < MaxJobs
            /\ refreshRunning' = TRUE
            /\ hpc' = [hpc EXCEPT !["scheduled"] = "create"]
            /\ reply' = NoReply
            /\ UNCHANGED <<jobs, projects, snapshots, runs, faults, up, fetch, qry, dur, hist, status, lk, rsp, rd>>

\* A variant of the scheduled trigger that creates its job and returns true
\* without starting the goroutine; C29 is checked against it.
TriggerRefresh_Create_Unlaunched ==
    /\ hpc["scheduled"] = "create"
    /\ jobs' = CreateRefreshJob(jobs)
    /\ reply' = Response("scheduled", RetTrue)
    /\ hpc' = [hpc EXCEPT !["scheduled"] = "idle"]
    /\ UNCHANGED <<refreshRunning, projects, snapshots, runs, faults, up, fetch, qry, dur, hist, status, lk, rsp, rd>>

\* CreateRefreshJob, then either `go a.runRefresh(jobID, source)` and true,
\* or (store error) on to the flag reset.
TriggerRefresh_Create ==
    /\ hpc["scheduled"] = "create"
    /\ \E ok \in StoreOutcomes :
         IF ok
         THEN /\ jobs' = CreateRefreshJob(jobs)
              /\ runs' = Spawn(runs, Len(jobs) + 1)
              /\ reply' = Response("scheduled", RetTrue)
              /\ hpc' = [hpc EXCEPT !["scheduled"] = "idle"]
              /\ UNCHANGED <<refreshRunning, projects, snapshots, faults, up, fetch, qry, dur, hist, status, lk, rsp, rd>>
         ELSE /\ hpc' = [hpc EXCEPT !["scheduled"] = "unflag"]
              /\ reply' = NoReply
              /\ UNCHANGED <<refreshRunning, jobs, projects, snapshots, runs, faults, up, fetch, qry, dur, hist, status, lk, rsp, rd>>

\* The error path of CreateRefreshJob: lock, clear the flag, unlock, return false.
TriggerRefresh_Unflag ==
    /\ hpc["scheduled"] = "unflag"
    /\ refreshRunning' = FALSE
    /\ reply' = Response("scheduled", RetFalse)
    /\ hpc' = [hpc EXCEPT !["scheduled"] = "idle"]
    /\ UNCHANGED <<jobs, projects, snapshots, runs, faults, up, fetch, qry, dur, hist, status, lk, rsp, rd>>

(* ------------------------------------------------------------------ *)
(* The background run: api.runRefresh(jobID, source)                   *)
(* ------------------------------------------------------------------ *)

Active(j) == j \in DOMAIN runs
At(j, pc) == Active(j) /\ runs[j].pc = pc
Expired(j) == runs[j].expiredAt # ""

\* The positions at which FetchAllProjects holds the run's context.
SearchPhases == {"search", "cooldown"}
EnrichPhases == {"enrich", "lookup", "retry"}
FetchPhases == SearchPhases \cup EnrichPhases

\* context.WithTimeout(context.Background(), 10*time.Minute): the deadline
\* passes while FetchAllProjects is at work; expiredAt remembers where.
Timeout(j) ==
    /\ Active(j)
    /\ runs[j].pc \in FetchPhases
    /\ ~Expired(j)
    /\ runs' = [runs EXCEPT ![j].expiredAt = runs[j].pc]
    /\ reply' = NoReply
    /\ UNCHANGED <<refreshRunning, jobs, projects, snapshots, hpc, faults, up, fetch, qry, dur, hist, status, lk, rsp, rd>>

\* StartRefreshJob(jobID); on error the run returns (through the deferred
\* flag release), else the context is created and the fetch begins.
runRefresh_StartJob(j) ==
    /\ At(j, "start")
    /\ \E ok \in StoreOutcomes :
         IF ok
         THEN /\ jobs' = StartRefreshJob(jobs, j, CURRENT_TIMESTAMP)
              /\ runs' = [runs EXCEPT ![j].pc = "search"]
         ELSE /\ jobs' = jobs
              /\ runs' = [runs EXCEPT ![j].pc = "defer"]
    /\ reply' = NoReply
    /\ UNCHANGED <<refreshRunning, projects, snapshots, hpc, faults, up, fetch, qry, dur, hist, status, lk, rsp, rd>>

\* FetchAllProjects returns (projects, nil) to runRefresh: on to the upsert
\* loop, or straight to CompleteRefreshJob when the slice is empty.
Fetched(r, ps) ==
    [r EXCEPT !.pc = IF ps = <<>> THEN "complete" ELSE "upsert",
              !.projects = ps, !.repos = EmptyMap, !.done = {}, !.cur = "",
              !.q = 1, !.i = 1]

\* FetchAllProjects returns (ps, err) with err # nil: on to FailRefreshJob.
FetchFailed(r, ps, e) ==
    [r EXCEPT !.pc = "fail", !.err = e,
              !.projects = ps, !.repos = EmptyMap, !.done = {}, !.cur = "",
              !.q = 1, !.skipped = {}]

\* SearchDHIUsage's insert-if-absent of one response's hits under query q.
MergeHits(repos, hits, q) ==
    [n \in DOMAIN repos \cup hits |->
        IF n \in DOMAIN repos THEN repos[n] ELSE GetSearchQueries[q]]

\* One request of SearchDHIUsage for query q (the hits of the query's pages
\* in one response): the context check, then doRequest and its outcomes.
\* On a client error SearchDHIUsage returns (repos, err): repos stays in the
\* record as what the search had found, though FetchAllProjects returns nil.
SearchDHIUsage_Request(j) ==
    /\ At(j, "search")
    /\ LET r == runs[j] IN
       IF Expired(j)
       THEN runs' = [runs EXCEPT ![j] = FetchFailed(r, <<>>, WrapSearchErr(ErrDeadline))]
       ELSE \/ \E hits \in SUBSET QueryMatches(r.q) :
                 LET merged == MergeHits(r.repos, hits, r.q) IN
                 runs' = [runs EXCEPT ![j] =
                     IF r.q < Len(GetSearchQueries)
                     THEN [r EXCEPT !.q = r.q + 1, !.repos = merged]
                     ELSE IF DOMAIN merged = {}
                          THEN Fetched(r, <<>>)
                          ELSE [r EXCEPT !.pc = "enrich", !.repos = merged]]
            \/ runs' = [runs EXCEPT ![j].pc = "cooldown"]
            \/ runs' = [runs EXCEPT ![j] =
                   [FetchFailed(r, <<>>, WrapSearchErr(ErrAPI)) EXCEPT !.repos = r.repos]]
    /\ reply' = NoReply
    /\ UNCHANGED <<refreshRunning, jobs, projects, snapshots, hpc, faults, up, fetch, qry, dur, hist, status, lk, rsp, rd>>

\* "rate limited": time.Sleep(60 * time.Second); continue.
SearchDHIUsage_Cooldown(j) ==
    /\ At(j, "cooldown")
    /\ runs' = [runs EXCEPT ![j].pc = "search"]
    /\ reply' = NoReply
    /\ UNCHANGED <<refreshRunning, jobs, projects, snapshots, hpc, faults, up, fetch, qry, dur, hist, status, lk, rsp, rd>>

\* Head of the enrichment loop: the context check, then the next repository
\* of the map (Go's map order: any repository not yet visited).
FetchAllProjects_Next(j) ==
    /\ At(j, "enrich")
    /\ LET r == runs[j] IN
       IF Expired(j)
       THEN runs' = [runs EXCEPT ![j] = FetchFailed(r, r.projects, ErrDeadline)]
       ELSE \E n \in DOMAIN r.repos \ r.done :
                runs' = [runs EXCEPT ![j].pc = "lookup", ![j].cur = n]
    /\ reply' = NoReply
    /\ UNCHANGED <<refreshRunning, jobs, projects, snapshots, hpc, faults, up, fetch, qry, dur, hist, status, lk, rsp, rd>>

\* End of one iteration for repository r.cur with the slice now ps: back to
\* the loop head, or out of the loop with (ps, nil) after the last repository.
Iterated(r, ps) ==
    LET done == r.done \cup {r.cur} IN
    IF DOMAIN r.repos \ done = {}
    THEN Fetched(r, ps)
    ELSE [r EXCEPT !.pc = "enrich", !.done = done, !.cur = "", !.projects = ps]

\* The Project appended for details (FullName, StargazersCount) of r.cur.
Enriched(r, fullName, stars) ==
    Append(r.projects, [RepoFullName |-> fullName, Stars |-> stars,
                        SourceType |-> r.repos[r.cur]])

\* A variant of the error branch that gives up the whole fetch instead of
\* going on to the next repository; C19 is checked against it.
LookupFailed_Aborting(r) == FetchFailed(r, r.projects, ErrAPI)

\* GetRepoDetails returned an error that is not retried: it is logged and
\* `continue` goes on to the next repository; skipped remembers the
\* repositories this run left out.
LookupFailed(r) ==
    Iterated([r EXCEPT !.skipped = @ \cup {r.cur}], r.projects)

\* GetRepoDetails(ctx, repoName): details, "rate limited" (on to the cooldown
\* and retry), or another error (skip); a request on an expired context fails.
FetchAllProjects_Lookup(j) ==
    /\ At(j, "lookup")
    /\ LET r == runs[j] IN
       IF Expired(j)
       THEN runs' = [runs EXCEPT ![j] = LookupFailed(r)]
       ELSE \/ \E fn \in {r.cur}, st \in StarValues(r.cur) :
                 runs' = [runs EXCEPT ![j] = Iterated(r, Enriched(r, fn, st))]
            \/ runs' = [runs EXCEPT ![j].pc = "retry"]
            \/ runs' = [runs EXCEPT ![j] = LookupFailed(r)]
    /\ reply' = NoReply
    /\ UNCHANGED <<refreshRunning, jobs, projects, snapshots, hpc, faults, up, fetch, qry, dur, hist, status, lk, rsp, rd>>

\* After time.Sleep(60s): the one retry of GetRepoDetails; any error skips.
FetchAllProjects_Retry(j) ==
    /\ At(j, "retry")
    /\ LET r == runs[j] IN
       IF Expired(j)
       THEN runs' = [runs EXCEPT ![j] = LookupFailed(r)]
       ELSE \/ \E fn \in {r.cur}, st \in StarValues(r.cur) :
                 runs' = [runs EXCEPT ![j] = Iterated(r, Enriched(r, fn, st))]
            \/ runs' = [runs EXCEPT ![j] = LookupFailed(r)]
    /\ reply' = NoReply
    /\ UNCHANGED <<refreshRunning, jobs, projects, snapshots, hpc, faults, up, fetch, qry, dur, hist, status, lk, rsp, rd>>

\* A variant of the error branch that also writes what the search had found
\* into the catalog; C11 is checked against it.
runRefresh_Fail_Writing(j) ==
    /\ At(j, "fail")
    /\ \E ok \in StoreOutcomes :
         jobs' = IF ok THEN FailRefreshJob(jobs, j, runs[j].err, CURRENT_TIMESTAMP)
                       ELSE jobs
    /\ projects' =
         IF DOMAIN runs[j].repos = {} THEN projects
         ELSE LET n == CHOOSE x \in DOMAIN runs[j].repos : TRUE IN
              UpsertProject(projects, [RepoFullName |-> n, Stars |-> 0,
                                       SourceType |-> runs[j].repos[n]],
                            CURRENT_TIMESTAMP)
    /\ runs' = [runs EXCEPT ![j].pc = "defer"]
    /\ reply' = NoReply
    /\ UNCHANGED <<refreshRunning, snapshots, hpc, faults, up, fetch, qry, dur, hist, status, lk, rsp, rd>>

\* err != nil from FetchAllProjects: FailRefreshJob(jobID, err.Error()), its
\* own error ignored, then return.
runRefresh_Fail(j) ==
    /\ At(j, "fail")
    /\ \E ok \in StoreOutcomes :
         jobs' = IF ok THEN FailRefreshJob(jobs, j, runs[j].err, CURRENT_TIMESTAMP)
                       ELSE jobs
    /\ runs' = [runs EXCEPT ![j].pc = "defer"]
    /\ reply' = NoReply
    /\ UNCHANGED <<refreshRunning, projects, snapshots, hpc, faults, up, fetch, qry, dur, hist, status, lk, rsp, rd>>

\* One iteration of `for _, p := range projects`: UpsertProject, an error
\* only logged.
runRefresh_Upsert(j) ==
    /\ At(j, "upsert")
    /\ LET r == runs[j] IN
       /\ \E ok \in StoreOutcomes :
            projects' = IF ok THEN UpsertProject(projects, r.projects[r.i], CURRENT_TIMESTAMP)
                              ELSE projects
       /\ runs' = [runs EXCEPT ![j] =
              IF r.i < Len(r.projects)
              THEN [r EXCEPT !.i = r.i + 1]
              ELSE [r EXCEPT !.pc = "complete"]]
    /\ reply' = NoReply
    /\ UNCHANGED <<refreshRunning, jobs, snapshots, hpc, faults, up, fetch, qry, dur, hist, status, lk, rsp, rd>>

\* CompleteRefreshJob(jobID, len(projects)), an error only logged.
runRefresh_Complete(j) ==
    /\ At(j, "complete")
    /\ \E ok \in StoreOutcomes :
         jobs' = IF ok THEN CompleteRefreshJob(jobs, j, Len(runs[j].projects), CURRENT_TIMESTAMP)
                       ELSE jobs
    /\ runs' = [runs EXCEPT ![j].pc = "snapshot"]
    /\ reply' = NoReply
    /\ UNCHANGED <<refreshRunning, projects, snapshots, hpc, faults, up, fetch, qry, dur, hist, status, lk, rsp, rd>>

\* RecordSnapshot(), an error only logged; snap remembers that this run
\* appended a row.
runRefresh_Snapshot(j) ==
    /\ At(j, "snapshot")
    /\ \E ok \in StoreOutcomes :
         /\ snapshots' = IF ok THEN RecordSnapshot(snapshots, projects) ELSE snapshots
         /\ runs' = [runs EXCEPT ![j].pc = "defer", ![j].snap = ok,
                                  ![j].skipped = {}]
    /\ reply' = NoReply
    /\ UNCHANGED <<refreshRunning, jobs, projects, hpc, faults, up, fetch, qry, dur, hist, status, lk, rsp, rd>>

\* A variant of the run's exit without the deferred release: the goroutine
\* ends and the flag stays as it is; C4 is checked against it.
runRefresh_Deferred_Unreleased(j) ==
    /\ At(j, "defer")
    /\ runs' = [k \in DOMAIN runs \ {j} |-> runs[k]]
    /\ reply' = NoReply
    /\ UNCHANGED <<refreshRunning, jobs, projects, snapshots, hpc, faults, up, fetch, qry, dur, hist, status, lk, rsp, rd>>

\* The deferred function: lock, refreshRunning = false, unlock; the
\* goroutine ends.
runRefresh_Deferred(j) ==
    /\ At(j, "defer")
    /\ refreshRunning' = FALSE
    /\ runs' = [k \in DOMAIN runs \ {j} |-> runs[k]]
    /\ reply' = NoReply
    /\ UNCHANGED <<jobs, projects, snapshots, hpc, faults, up, fetch, qry, dur, hist, status, lk, rsp, rd>>

(* ------------------------------------------------------------------ *)
(* Process crash and restart                                           *)
(* ------------------------------------------------------------------ *)

\* The process dies while a trigger or a run is in flight and is started
\* again: New() builds a fresh API (flag false, no goroutine); the sqlite
\* tables are durable.
Crash ==
    /\ faults
    /\ \/ DOMAIN runs # {}
       \/ \E o \in Origins : hpc[o] # "idle"
    /\ refreshRunning' = FALSE
    /\ hpc' = [o \in Origins |-> "idle"]
    /\ runs' = EmptyMap
    /\ reply' = NoReply
    /\ UNCHANGED <<jobs, projects, snapshots, faults, up, fetch, qry, dur, hist, status, lk, rsp, rd>>

(* ------------------------------------------------------------------ *)
(* Specifications                                                      *)
(* ------------------------------------------------------------------ *)

JobIds == 1..MaxJobs

Steps ==
    \/ handleRefresh_Check
    \/ handleRefresh_Create
    \/ TriggerRefresh_Check
    \/ TriggerRefresh_Create
    \/ \E j \in JobIds : runRefresh_StartJob(j)
    \/ \E j \in JobIds : Timeout(j)
    \/ \E j \in JobIds : SearchDHIUsage_Request(j)
    \/ \E j \in JobIds : SearchDHIUsage_Cooldown(j)
    \/ \E j \in JobIds : FetchAllProjects_Next(j)
    \/ \E j \in JobIds : FetchAllProjects_Lookup(j)
    \/ \E j \in JobIds : FetchAllProjects_Retry(j)
    \/ \E j \in JobIds : runRefresh_Fail(j)
    \/ \E j \in JobIds : runRefresh_Upsert(j)
    \/ \E j \in JobIds : runRefresh_Complete(j)
    \/ \E j \in JobIds : runRefresh_Snapshot(j)
    \/ \E j \in JobIds : runRefresh_Deferred(j)

\* The steps only a fault brings about: the flag reset after a rejected
\* CreateRefreshJob, and the loss of the process.
FaultSteps ==
    \/ handleRefresh_Unflag
    \/ TriggerRefresh_Unflag
    \/ Crash

Next == Steps \/ FaultSteps

\* Every behaviour: provider errors, throttling, timeouts, store errors, crashes.
Spec == Init /\ [][Next]_vars

\* The behaviours in which the store accepts every call and the process
\* stays up (provider errors, throttling and timeouts still happen).
ReliableSpec == InitReliable /\ [][Steps]_vars

(* ------------------------------------------------------------------ *)
(* FetchAllProjects on its own, page by page, with the time it takes    *)
(* ------------------------------------------------------------------ *)

\* The numbers of the code: page size, page ceiling, and (in seconds) the
\* delay between search requests, the cooldown after a throttling response,
\* the delay between repository lookups and the deadline runRefresh sets.
perPage == 100
PageCeiling == 10
searchRateDelay == 6
ThrottleCooldown == 60
LookupDelay == 1
RefreshTimeout == 600

\* Cap on the cooldowns counted in one call.
CooldownCap == 12

\* A variant of the context that carries no deadline; C17 is checked
\* against it.
CtxDone_Never(clock) == FALSE

\* <-ctx.Done() is ready: the deadline of context.WithTimeout has passed.
CtxDone(clock) == clock >= RefreshTimeout

\* What the search endpoint holds for each query: the files that match it,
\* in the repositories of QueryMatches (two files of a/x match query 1).
SearchHits(q) ==
    CASE q = 1 -> {[repo |-> "a/x", path |-> "Dockerfile"],
                   [repo |-> "a/x", path |-> "docker/Dockerfile.dev"]}
      [] q = 2 -> {[repo |-> "a/x", path |-> "deploy/app.yaml"]}
      [] OTHER -> {[repo |-> "b/y", path |-> ".github/workflows/ci.yml"]}

\* What it may answer to one request of query q. A page is its items in
\* order (the distinct ones, which the rest of the page repeats), the number
\* n of items it holds and the total_count it reports.
ItemLists(q) ==
    {<<>>} \cup {<<h>> : h \in SearchHits(q)}
           \cup {<<h1, h2>> : h1 \in SearchHits(q), h2 \in SearchHits(q)}
Totals == {150, 1000, 5000}
Responses(q) ==
    {r \in [items : ItemLists(q), n : {0, 1, 2, perPage}, total : Totals] :
        \/ r.n = Len(r.items)
        \/ r.n = perPage /\ r.items # <<>>}
NoResponse == [n |-> 0, total |-> 0, dup |-> FALSE]

\* The first item of a page that refers to repository n.
FirstItem(items, n) ==
    LET k == CHOOSE i \in 1..Len(items) :
                 /\ items[i].repo = n
                 /\ \A m \in 1..(i - 1) : items[m].repo # n
    IN items[k]

\* The record of which hit was the first for each repository: what it was
\* before the page, and for a repository new with this page its first item.
FirstSeen(first, items, q) ==
    LET new == {items[i].repo : i \in 1..Len(items)} \ DOMAIN first IN
    [n \in DOMAIN first \cup new |->
        IF n \in DOMAIN first THEN first[n]
        ELSE [path |-> FirstItem(items, n).path, q |-> q]]

\* The page holds an item for a repository met before (in the map already,
\* or earlier in the page).
Repeats(repos, items) ==
    \E i \in 1..Len(items) :
        \/ items[i].repo \in DOMAIN repos
        \/ \E m \in 1..(i - 1) : items[m].repo = items[i].repo

\* A variant of the merge without the `exists` test: the last hit wins; C15
\* is checked against it.
RECURSIVE MergeItems_Overwriting(_, _, _)
MergeItems_Overwriting(repos, items, q) ==
    IF items = <<>> THEN repos
    ELSE LET h == Head(items)
             entry == [FilePath |-> h.path, SourceType |-> GetSearchQueries[q]]
             merged == [n \in DOMAIN repos \cup {h.repo} |->
                           IF n = h.repo THEN entry ELSE repos[n]]
         IN MergeItems_Overwriting(merged, Tail(items), q)

\* The loop over searchResp.Items: insert-if-absent into repos, the category
\* being the name of query q.
RECURSIVE MergeItems(_, _, _)
MergeItems(repos, items, q) ==
    IF items = <<>> THEN repos
    ELSE LET h == Head(items)
             merged == IF h.repo \in DOMAIN repos THEN repos
                       ELSE repos @@ (h.repo :> [FilePath |-> h.path,
                                                 SourceType |-> GetSearchQueries[q]])
         IN MergeItems(merged, Tail(items), q)

\* A variant of the stop conditions whose ceiling test lets page 10 pass;
\* C16 is checked against it.
MorePages_PastCeiling(n, page, total) ==
    /\ ~(n < perPage \/ page * perPage >= total)
    /\ ~(page > PageCeiling)

\* The two stop conditions of the page loop, negated: page++ is reached.
MorePages(n, page, total) ==
    /\ ~(n < perPage \/ page * perPage >= total)
    /\ ~(page >= PageCeiling)

\* The locals when runRefresh calls FetchAllProjects(ctx, nil): the clock
\* counts the seconds since the context was made. asked, resp, cooldowns,
\* first, found, looks and skipped record what was requested and answered.
NewFetch ==
    [pc |-> "search", clock |-> 0, q |-> 1, page |-> 1, repos |-> EmptyMap,
     asked |-> {}, resp |-> NoResponse, cooldowns |-> 0, first |-> EmptyMap,
     found |-> EmptyMap, err |-> "", projects |-> <<>>,
     done |-> {}, cur |-> "", looks |-> EmptyMap, skipped |-> {}]

FetchAllProjects_Call ==
    /\ fetch.pc = "none"
    /\ fetch' = NewFetch
    /\ UNCHANGED <<refreshRunning, jobs, projects, snapshots, hpc, reply, runs, faults, up, qry, dur, hist, status, lk, rsp, rd>>

\* SearchDHIUsage returns (repos, e) with e # nil; FetchAllProjects returns
\* (nil, wrapped e). found is the map SearchDHIUsage returned.
SearchStopped(f, e) ==
    [f EXCEPT !.pc = "returned", !.found = f.repos, !.err = WrapSearchErr(e),
              !.projects = <<>>]

\* SearchDHIUsage returns (repos, nil): on to the enrichment loop.
SearchDone(f) ==
    [f EXCEPT !.pc = "enrich", !.found = f.repos, !.q = 1, !.page = 1,
              !.asked = {}, !.resp = NoResponse]

\* Head of the page loop: the context check, then the request for the page
\* and what doRequest returns: a page, "rate limited", another error (or a
\* body that does not parse), or the deadline passing before the answer.
SearchDHIUsage_Page ==
    /\ fetch.pc = "search"
    /\ IF CtxDone(fetch.clock)
       THEN fetch' = SearchStopped(fetch, ErrDeadline)
       ELSE LET f == [fetch EXCEPT !.asked = @ \cup {fetch.page}] IN
            \/ \E r \in Responses(f.q) :
                 fetch' = [f EXCEPT
                     !.repos = MergeItems(f.repos, r.items, f.q),
                     !.first = FirstSeen(f.first, r.items, f.q),
                     !.resp = [n |-> r.n, total |-> r.total,
                               dup |-> Repeats(f.repos, r.items)],
                     !.pc = IF MorePages(r.n, f.page, r.total)
                            THEN "pageDelay" ELSE "queryDelay"]
            \/ /\ f.cooldowns < CooldownCap
               /\ fetch' = [f EXCEPT !.pc = "cooldown"]
            \/ fetch' = SearchStopped(f, ErrAPI)
            \/ fetch' = SearchStopped([f EXCEPT !.clock = RefreshTimeout], ErrDeadline)
    /\ UNCHANGED <<refreshRunning, jobs, projects, snapshots, hpc, reply, runs, faults, up, qry, dur, hist, status, lk, rsp, rd>>

\* "rate limited": time.Sleep(60 * time.Second); continue (the same page).
SearchDHIUsage_Cooldown_Timed ==
    /\ fetch.pc = "cooldown"
    /\ fetch' = [fetch EXCEPT !.pc = "search", !.cooldowns = @ + 1,
                               !.clock = @ + ThrottleCooldown]
    /\ UNCHANGED <<refreshRunning, jobs, projects, snapshots, hpc, reply, runs, faults, up, qry, dur, hist, status, lk, rsp, rd>>

\* A variant that goes on to the next page without the sleep; C32 is checked
\* against it.
SearchDHIUsage_PageDelay_Hasty ==
    /\ fetch.pc = "pageDelay"
    /\ fetch' = [fetch EXCEPT !.pc = "search", !.page = @ + 1,
                               !.resp = NoResponse]
    /\ UNCHANGED <<refreshRunning, jobs, projects, snapshots, hpc, reply, runs, faults, up, qry, dur, hist, status, lk, rsp, rd>>

\* page++; time.Sleep(searchRateDelay).
SearchDHIUsage_PageDelay ==
    /\ fetch.pc = "pageDelay"
    /\ fetch' = [fetch EXCEPT !.pc = "search", !.page = @ + 1,
                               !.resp = NoResponse,
                               !.clock = @ + searchRateDelay]
    /\ UNCHANGED <<refreshRunning, jobs, projects, snapshots, hpc, reply, runs, faults, up, qry, dur, hist, status, lk, rsp, rd>>

\* break; time.Sleep(searchRateDelay); then the next query, or after the
\* last one `return repos, nil`.
SearchDHIUsage_QueryDelay ==
    /\ fetch.pc = "queryDelay"
    /\ LET f == [fetch EXCEPT !.clock = @ + searchRateDelay] IN
       fetch' = IF f.q < Len(GetSearchQueries)
                THEN [f EXCEPT !.pc = "search", !.q = @ + 1, !.page = 1,
                               !.asked = {}, !.resp = NoResponse]
                ELSE SearchDone(f)
    /\ UNCHANGED <<refreshRunning, jobs, projects, snapshots, hpc, reply, runs, faults, up, qry, dur, hist, status, lk, rsp, rd>>

\* FetchAllProjects returns (f.projects, e).
FetchReturned(f, e) == [f EXCEPT !.pc = "returned", !.err = e, !.cur = ""]

\* Head of `for repoName, searchResult := range repos`: out of the loop when
\* every repository was visited, else the context check and the next one (in
\* any order).
FetchAllProjects_Pick ==
    /\ fetch.pc = "enrich"
    /\ IF DOMAIN fetch.repos \ fetch.done = {}
       THEN fetch' = FetchReturned(fetch, "")
       ELSE IF CtxDone(fetch.clock)
       THEN fetch' = FetchReturned(fetch, ErrDeadline)
       ELSE \E n \in DOMAIN fetch.repos \ fetch.done :
                fetch' = [fetch EXCEPT !.pc = "lookup", !.cur = n]
    /\ UNCHANGED <<refreshRunning, jobs, projects, snapshots, hpc, reply, runs, faults, up, qry, dur, hist, status, lk, rsp, rd>>

\* One more call of GetRepoDetails for the repository in hand.
Looked(f) ==
    [f EXCEPT !.looks = [n \in DOMAIN f.looks \cup {f.cur} |->
                            IF n \in DOMAIN f.looks
                            THEN f.looks[n] + (IF n = f.cur THEN 1 ELSE 0)
                            ELSE 1]]

\* projects = append(projects, Project{...}) from the details and the search
\* result of the repository in hand; then on to the delay.
Appended(f, stars) ==
    [f EXCEPT !.pc = "rest",
              !.projects = Append(@, [RepoFullName |-> f.cur, Stars |-> stars,
                                      DockerfilePath |-> f.repos[f.cur].FilePath,
                                      SourceType |-> f.repos[f.cur].SourceType])]

\* `continue`: the repository in hand is left out and the loop goes on.
Skipped(f) ==
    [f EXCEPT !.pc = "enrich", !.done = @ \cup {f.cur},
              !.skipped = @ \cup {f.cur}, !.cur = ""]

\* A variant of the retry that, throttled again, waits and retries again;
\* C18 is checked against it.
FetchAllProjects_RetryLookup_Again ==
    /\ fetch.pc = "retry"
    /\ LET f == Looked(fetch) IN
       \/ \E st \in StarValues(f.cur) : fetch' = Appended(f, st)
       \/ /\ f.cooldowns < CooldownCap
          /\ fetch' = [f EXCEPT !.pc = "lookupCooldown"]
       \/ fetch' = Skipped(f)
    /\ UNCHANGED <<refreshRunning, jobs, projects, snapshots, hpc, reply, runs, faults, up, qry, dur, hist, status, lk, rsp, rd>>

\* GetRepoDetails(ctx, repoName): the details, "rate limited", another error,
\* or the deadline passing before the answer (an error that is not "rate
\* limited").
FetchAllProjects_LookupTimed ==
    /\ fetch.pc = "lookup"
    /\ LET f == Looked(fetch) IN
       \/ \E st \in StarValues(f.cur) : fetch' = Appended(f, st)
       \/ /\ f.cooldowns < CooldownCap
          /\ fetch' = [f EXCEPT !.pc = "lookupCooldown"]
       \/ fetch' = Skipped(f)
       \/ fetch' = Skipped([f EXCEPT !.clock = RefreshTimeout])
    /\ UNCHANGED <<refreshRunning, jobs, projects, snapshots, hpc, reply, runs, faults, up, qry, dur, hist, status, lk, rsp, rd>>

\* "rate limited": time.Sleep(60 * time.Second) before the retry.
FetchAllProjects_LookupCooldown ==
    /\ fetch.pc = "lookupCooldown"
    /\ fetch' = [fetch EXCEPT !.pc = "retry", !.cooldowns = @ + 1,
                               !.clock = @ + ThrottleCooldown]
    /\ UNCHANGED <<refreshRunning, jobs, projects, snapshots, hpc, reply, runs, faults, up, qry, dur, hist, status, lk, rsp, rd>>

\* The retry of GetRepoDetails: the details, or any error (at once when the
\* deadline has passed during the cooldown), which skips the repository.
FetchAllProjects_RetryLookup ==
    /\ fetch.pc = "retry"
    /\ LET f == Looked(fetch) IN
       IF CtxDone(f.clock)
       THEN fetch' = Skipped(f)
       ELSE \/ \E st \in StarValues(f.cur) : fetch' = Appended(f, st)
            \/ fetch' = Skipped(f)
            \/ fetch' = Skipped([f EXCEPT !.clock = RefreshTimeout])
    /\ UNCHANGED <<refreshRunning, jobs, projects, snapshots, hpc, reply, runs, faults, up, qry, dur, hist, status, lk, rsp, rd>>

\* time.Sleep(1 * time.Second) at the end of an iteration that appended.
FetchAllProjects_LookupDelay ==
    /\ fetch.pc = "rest"
    /\ fetch' = [fetch EXCEPT !.pc = "enrich", !.done = @ \cup {fetch.cur},
                               !.cur = "", !.clock = @ + LookupDelay]
    /\ UNCHANGED <<refreshRunning, jobs, projects, snapshots, hpc, reply, runs, faults, up, qry, dur, hist, status, lk, rsp, rd>>

FetchNext ==
    \/ FetchAllProjects_Call
    \/ SearchDHIUsage_Page
    \/ SearchDHIUsage_Cooldown_Timed
    \/ SearchDHIUsage_PageDelay
    \/ SearchDHIUsage_QueryDelay
    \/ FetchAllProjects_Pick
    \/ FetchAllProjects_LookupTimed
    \/ FetchAllProjects_LookupCooldown
    \/ FetchAllProjects_RetryLookup
    \/ FetchAllProjects_LookupDelay

LockNext ==
    \/ \E o \in Origins :
          \/ Trigger_Arrive(o)
          \/ Trigger_Lock(o)
          \/ Trigger_Test(o)
          \/ Trigger_Unlock(o)
          \/ Trigger_CreateJob(o)
          \/ Trigger_Go(o)
          \/ Trigger_Relock(o)
          \/ Trigger_Clear(o)
    \/ Status_Arrive
    \/ Status_Lock
    \/ Status_Read
    \/ Status_GetJob
    \/ List_Begin
    \/ List_Query
    \/ Run_StartJob
    \/ Run_Fetch
    \/ Run_Store
    \/ Run_DeferLock
    \/ Run_DeferClear

\* Scheduling: a handler goroutine that can take its next operation takes
\* it, a goroutine waiting in Lock() gets the mutex if it is free again and
\* again (sync.Mutex hands over to starved waiters), and whoever holds the
\* mutex goes on to its Unlock(). Nothing is assumed about how long the run
\* spends in FetchAllProjects or in the store.
LockSpec ==
    /\ Init
    /\ [][LockNext]_vars
    /\ \A o \in Origins :
          /\ SF_vars(Trigger_Lock(o))
          /\ WF_vars(Trigger_Test(o))
          /\ WF_vars(Trigger_Unlock(o))
          /\ WF_vars(Trigger_CreateJob(o))
          /\ WF_vars(Trigger_Go(o))
          /\ SF_vars(Trigger_Relock(o))
          /\ WF_vars(Trigger_Clear(o))
    /\ SF_vars(Status_Lock)
    /\ WF_vars(Status_Read)
    /\ WF_vars(Status_GetJob)
    /\ WF_vars(List_Query)
    /\ WF_vars(Run_DeferClear)

\* A run response by response.
ResponseNext ==
    \/ runRefresh_Begin
    \/ SearchDHIUsage_Reply
    \/ SearchDHIUsage_Wait
    \/ FetchAllProjects_Range
    \/ FetchAllProjects_Reply
    \/ FetchAllProjects_Wait
    \/ FetchAllProjects_RetryReply
    \/ runRefresh_End

ResponseSpec == InitReliable /\ [][ResponseNext]_vars

\* One stats request while a run upserts.
StatsNext ==
    \/ Query_UpsertProject
    \/ GetStats_Total
    \/ GetStats_Popular
    \/ GetStats_Notable

StatsSpec == InitReliable /\ [][StatsNext]_vars

\* Status requests beside the triggers and runs, on a store that answers
\* and a process that stays up.
StatusNext ==
    \/ Steps
    \/ handleRefreshStatus_ReadFlag
    \/ handleRefreshStatus_Respond

StatusSpec == InitReliable /\ [][StatusNext]_vars

\* One call of FetchAllProjects under the context runRefresh gives it.
FetchSpec == InitReliable /\ [][FetchNext]_vars

\* One call of GetFileFirstCommit for a file with any history, against a
\* provider that honours per_page or one that does not.
HistorySpec == InitReliable /\ [][HistoryNext]_vars

\* parseDuration called with every string up to MaxLen characters.
DurationSpec == InitReliable /\ [][parseDuration_Call]_vars

\* The read operations on a catalog that UpsertProject calls have filled, on
\* a store that answers every statement.
QuerySpec == InitReliable /\ [][QueryNext]_vars

\* UpsertProject called any number of times, with any records, on a store
\* that accepts every statement.
UpsertSpec == InitReliable /\ [][UpsertProject_Call]_vars

\* Scheduling: a trigger call that holds the flag and a live goroutine keep
\* running (Go schedules every runnable goroutine), and the timer of
\* context.WithTimeout fires while the fetch is still at work.
RunStep(j) ==
    \/ runRefresh_StartJob(j)
    \/ SearchDHIUsage_Request(j)
    \/ SearchDHIUsage_Cooldown(j)
    \/ FetchAllProjects_Next(j)
    \/ FetchAllProjects_Lookup(j)
    \/ FetchAllProjects_Retry(j)
    \/ runRefresh_Fail(j)
    \/ runRefresh_Upsert(j)
    \/ runRefresh_Complete(j)
    \/ runRefresh_Snapshot(j)
    \/ runRefresh_Deferred(j)

Continue ==
    \/ handleRefresh_Create
    \/ handleRefresh_Unflag
    \/ TriggerRefresh_Create
    \/ TriggerRefresh_Unflag
    \/ \E j \in JobIds : RunStep(j)

FairSpec ==
    /\ Init
    /\ [][Next]_vars
    /\ WF_vars(Continue)
    /\ WF_vars(\E j \in JobIds : Timeout(j))

(* ------------------------------------------------------------------ *)
(* Properties                                                          *)
(* ------------------------------------------------------------------ *)

Terminal == {"completed", "failed"}
JobsWithStatus(st) == {j \in 1..Len(jobs) : jobs[j].status = st}
Idle == DOMAIN runs = {} /\ \A o \in Origins : hpc[o] = "idle"

\* Origin o, not inside a trigger call, makes a trigger attempt in this step.
Attempt(o) ==
    /\ hpc[o] = "idle"
    /\ hpc'[o] # "idle" \/ reply'.origin = o

DeclineBody(o) == IF o = "manual" THEN MsgAlreadyInProgress ELSE RetFalse

\* C1: under every interleaving of manual and scheduled triggers at most one
\* runRefresh goroutine is alive and at most one job row has status 'running'.
C1_AtMostOneRunAndRunningJob ==
    /\ Cardinality(DOMAIN runs) <= 1
    /\ Cardinality(JobsWithStatus("running")) <= 1

\* C2: a trigger attempt made while the flag is set is declined: no job row is
\* created, no run is launched, the flag stays set, nothing else changes, and
\* the caller gets "Refresh already in progress" (manual) or false (scheduled).
C2_DeclinedWhileFlagSet ==
    [][\A o \in Origins :
          (refreshRunning /\ Attempt(o)) =>
              /\ jobs' = jobs
              /\ runs' = runs
              /\ refreshRunning'
              /\ hpc' = hpc
              /\ projects' = projects
              /\ snapshots' = snapshots
              /\ reply' = Response(o, DeclineBody(o))]_vars

\* C2 witness: a manual attempt was just declined while a run is alive.
C2_Witness ==
    /\ reply = Response("manual", MsgAlreadyInProgress)
    /\ refreshRunning
    /\ \E j \in DOMAIN runs : runs[j].pc = "lookup"

\* C3: every job row that is created eventually reaches status 'completed' or
\* 'failed', and a row whose run has exited (or died with the process) is
\* already there, whichever exit path the run took.
C3_EveryJobReachesTerminal ==
    /\ \A j \in JobIds :
          (j <= Len(jobs)) ~> (j <= Len(jobs) /\ jobs[j].status \in Terminal)
    /\ [](\A j \in 1..Len(jobs) : ~Active(j) => jobs[j].status \in Terminal)

\* C4: once set, the flag is eventually cleared again, whatever path the
\* trigger and the run take; and an attempt made while the flag is clear is
\* accepted (it takes the flag and goes on to create the job).
C4_FlagEventuallyCleared ==
    /\ refreshRunning ~> ~refreshRunning
    /\ [][\A o \in Origins :
            (~refreshRunning /\ Attempt(o)) =>
                (refreshRunning' /\ hpc'[o] = "create")]_vars

\* C4 witness: the first run timed out and failed, its flag was released,
\* and a second trigger has been accepted.
C4_Witness ==
    /\ Len(jobs) = 2
    /\ jobs[1].status = "failed"
    /\ jobs[1].error_message \in TimeoutMessages
    /\ refreshRunning
    /\ Active(2)

\* C5: a job row is created 'pending' and its status only moves
\* pending -> running -> completed | failed; rows are never removed.
C5_JobLifecycle ==
    [][/\ Len(jobs') >= Len(jobs)
       /\ \A j \in 1..Len(jobs') :
            IF j > Len(jobs)
            THEN jobs'[j].status = "pending"
            ELSE \/ jobs'[j].status = jobs[j].status
                 \/ jobs[j].status = "pending" /\ jobs'[j].status = "running"
                 \/ jobs[j].status = "running" /\ jobs'[j].status \in Terminal]_vars

\* C5 witness: one job went through to 'completed', another to 'failed'.
C5_Witness ==
    /\ JobsWithStatus("completed") # {}
    /\ JobsWithStatus("failed") # {}

\* C6: a run that has appended a snapshot row has its job in status
\* 'completed'.
C6_SnapshotOnlyAfterCompleted ==
    \A j \in DOMAIN runs : runs[j].snap => jobs[j].status = "completed"

\* C7: whenever no trigger call and no run is in flight there are as many
\* snapshot rows as 'completed' job rows; and snapshot rows are only appended.
C7_SnapshotsMatchCompletedJobs ==
    /\ [](Idle => Len(snapshots) = Cardinality(JobsWithStatus("completed")))
    /\ [][/\ Len(snapshots') >= Len(snapshots)
          /\ \A k \in 1..Len(snapshots) : snapshots'[k] = snapshots[k]]_vars

\* C8: a run that returns after its search failed or its timeout expired has
\* its job 'failed' with the error text and has recorded no snapshot.
C8_FailureMarksJobFailed ==
    \A j \in DOMAIN runs :
        (runs[j].pc = "defer" /\ (runs[j].err # "" \/ Expired(j))) =>
            /\ jobs[j].status = "failed"
            /\ jobs[j].error_message # ""
            /\ runs[j].err # "" => jobs[j].error_message = runs[j].err
            /\ ~runs[j].snap

\* C9: a run whose timeout expired during enrichment (before or during the
\* lookup of any repository, the last one included) returns with its job
\* 'failed' with a timeout message and no snapshot recorded; when it is gone
\* the flag is clear; and no row is ever removed from the catalog.
C9_TimeoutMidEnrichmentFailsJob ==
    /\ [](\A j \in DOMAIN runs :
            (runs[j].pc = "defer" /\ runs[j].expiredAt \in EnrichPhases) =>
                /\ jobs[j].status = "failed"
                /\ jobs[j].error_message \in TimeoutMessages
                /\ ~runs[j].snap)
    /\ [][\A j \in DOMAIN runs :
            (runs[j].expiredAt \in EnrichPhases /\ j \notin DOMAIN runs') =>
                ~refreshRunning']_vars
    /\ [][\A n \in DOMAIN projects : n \in DOMAIN projects']_vars

\* C10: a run cancelled by its timeout returns with every repository it had
\* enriched before the cancellation written to the catalog by this run.
C10_CancelledRunKeepsPartialWork ==
    \A j \in DOMAIN runs :
        (runs[j].pc = "defer" /\ Expired(j) /\ runs[j].err \in TimeoutMessages) =>
            \A i \in 1..Len(runs[j].projects) :
                LET n == runs[j].projects[i].RepoFullName IN
                /\ n \in DOMAIN projects
                /\ projects[n].last_seen_at = j

\* C11: from its start to its end, a run whose search stops on a client error
\* other than throttling changes nothing in the catalog: no step taken while
\* the run is starting or searching, and no step taken after its search
\* failed, inserts or updates a row, whatever the search had found by then.
C11_SearchErrorLeavesCatalog ==
    [][\A j \in DOMAIN runs :
          (\/ runs[j].pc \in {"start"} \cup SearchPhases
           \/ runs[j].err = WrapSearchErr(ErrAPI)) => projects' = projects]_vars

\* C11 witness: a run whose earlier queries had found a repository has failed
\* on a client error, over a catalog an earlier run had filled.
C11_Witness ==
    \E j \in DOMAIN runs :
        /\ runs[j].pc = "defer"
        /\ runs[j].err = WrapSearchErr(ErrAPI)
        /\ DOMAIN runs[j].repos # {}
        /\ DOMAIN projects # {}
        /\ jobs[j].status = "failed"

\* The catalog keyed by name, as UpsertProject keeps it in the refresh model,
\* is the table of rows read by name.
KeyedCatalogAgrees ==
    /\ DOMAIN up.cat = {up.rows[i].repo_full_name : i \in 1..Len(up.rows)}
    /\ \A i \in 1..Len(up.rows) :
          LET row == up.rows[i]  c == up.cat[row.repo_full_name] IN
          /\ c.stars = row.stars
          /\ c.source_type = row.source_type
          /\ c.first_seen_at = row.first_seen_at
          /\ c.last_seen_at = row.last_seen_at

\* The calls made so far for repository n, oldest first.
CallsFor(n) == SelectSeq(up.calls, LAMBDA c : c.p.RepoFullName = n)

\* C12: after any sequence of UpsertProject calls the table holds exactly one
\* row for every repository upserted and none for any other; the row shows
\* the stars of the latest call for that repository and the first-seen time
\* of the first one.
C12_OneRowLatestStarsFirstSeenKept ==
    /\ \A n \in Repos :
          Cardinality(Conflicts(up.rows, n)) = IF CallsFor(n) = <<>> THEN 0 ELSE 1
    /\ \A i \in 1..Len(up.rows) :
          LET cs == CallsFor(up.rows[i].repo_full_name) IN
          /\ cs # <<>>
          /\ up.rows[i].stars = cs[Len(cs)].p.Stars
          /\ up.rows[i].first_seen_at = cs[1].at

\* C12 witness: a repository was upserted twice with different stars, in
\* different seconds.
C12_Witness ==
    \E n \in Repos :
        LET cs == CallsFor(n) IN
        /\ Len(cs) >= 2
        /\ cs[1].p.Stars # cs[Len(cs)].p.Stars
        /\ cs[1].at # cs[Len(cs)].at

\* A row without its last-seen and updated-at times.
Untimed(row) == [row EXCEPT !.last_seen_at = 0, !.updated_at = 0]

\* C13: a call that repeats the record of the call before it returns no error
\* and leaves the table as that call left it, apart from the last-seen and
\* updated-at times.
C13_UpsertIdempotent ==
    LET k == Len(up.calls) IN
    (k >= 2 /\ up.calls[k].p = up.calls[k - 1].p) =>
        /\ up.err = ""
        /\ Len(up.rows) = Len(up.prev)
        /\ \A i \in 1..Len(up.rows) : Untimed(up.rows[i]) = Untimed(up.prev[i])

\* C13 witness: the same record was applied twice in a row, a second apart,
\* to a table that also holds another repository.
C13_Witness ==
    LET k == Len(up.calls) IN
    /\ k >= 2
    /\ up.calls[k].p = up.calls[k - 1].p
    /\ up.calls[k].at # up.calls[k - 1].at
    /\ Len(up.rows) = 2

\* C14: no step of any run, whether it succeeds, fails or times out, removes a
\* name from the catalog; and a row changes only in the step in which a run
\* upserts that very repository, so the row of a repository the run did not
\* find and enrich keeps all its fields, last-seen included.
C14_CatalogOnlyGrows ==
    [][\A n \in DOMAIN projects :
          /\ n \in DOMAIN projects'
          /\ projects'[n] # projects[n] =>
                \E j \in DOMAIN runs :
                    /\ runs[j].pc = "upsert"
                    /\ runs[j].projects[runs[j].i].RepoFullName = n]_vars

\* C14 witness: the second run has completed having found and upserted only
\* a/x; b/y, found by the first run, is still there as the first run left it.
C14_Witness ==
    /\ Len(jobs) = 2
    /\ jobs[2].status = "completed"
    /\ jobs[2].projects_found = 1
    /\ DOMAIN projects = {"a/x", "b/y"}
    /\ projects["a/x"].last_seen_at = 2
    /\ projects["b/y"].last_seen_at = 1

\* The positions of SearchDHIUsage in a FetchAllProjects call.
Searching == fetch.pc \in {"search", "cooldown", "pageDelay", "queryDelay"}

\* C15: while the search runs, an entry of the result map is never removed or
\* overwritten, and every entry holds the path of the first hit merged for its
\* repository and the category of the query that brought it, the queries
\* being asked in the order Dockerfiles, YAML/K8s, GitHub Actions.
C15_FirstHitWins ==
    /\ [](fetch.pc # "none" =>
            /\ DOMAIN fetch.repos = DOMAIN fetch.first
            /\ \A n \in DOMAIN fetch.repos :
                  /\ fetch.repos[n].FilePath = fetch.first[n].path
                  /\ fetch.repos[n].SourceType =
                        <<"Dockerfiles", "YAML/K8s", "GitHub Actions">>[fetch.first[n].q])
    /\ [][Searching =>
            /\ fetch'.pc = "search" => fetch'.q >= fetch.q
            /\ \A n \in DOMAIN fetch.repos :
                  n \in DOMAIN fetch'.repos /\ fetch'.repos[n] = fetch.repos[n]]_vars

\* C15 witness: the second query has just brought a hit for a/x, which the
\* first query had brought before; the entry is still the first one.
C15_Witness ==
    /\ fetch.pc = "queryDelay"
    /\ fetch.q = 2
    /\ fetch.resp.dup
    /\ fetch.resp.n = 1
    /\ "a/x" \in DOMAIN fetch.repos
    /\ fetch.repos["a/x"].SourceType = "Dockerfiles"

\* C16: after page p of a query the search goes on to page p+1 of that query
\* exactly when page p held 100 items, 100*p is below the reported total and
\* p is below 10; the pages asked of a query are 1, 2, ... in order, never
\* beyond 10, and all of 1..10 when the tenth is still full with a larger
\* total.
C16_PaginationStops ==
    /\ fetch.pc \in {"pageDelay", "queryDelay"} =>
          (fetch.pc = "pageDelay" <=>
              /\ fetch.resp.n = 100
              /\ 100 * fetch.page < fetch.resp.total
              /\ fetch.page < 10)
    /\ Searching =>
          /\ fetch.page \in 1..10
          /\ fetch.asked \in {1..(fetch.page - 1), 1..fetch.page}
          /\ (fetch.pc = "queryDelay" /\ fetch.resp.n = 100
                 /\ 100 * fetch.page < fetch.resp.total) => fetch.asked = 1..10

\* C16 witness: the tenth page of a query came back full with a total of
\* 5000, and the query ends there.
C16_Witness ==
    /\ fetch.pc = "queryDelay"
    /\ fetch.page = 10
    /\ fetch.resp.n = 100
    /\ fetch.resp.total = 5000
    /\ fetch.asked = 1..10

\* The search of this call has returned an error to FetchAllProjects.
SearchFailed ==
    /\ fetch.pc = "returned"
    /\ fetch.err \in {WrapSearchErr(ErrAPI), WrapSearchErr(ErrDeadline)}

\* C17: the cooldown-and-retry attempts of a run are bounded by a fixed
\* number: all the calls of one FetchAllProjects together, search pages
\* included, go through at most ten cooldowns (the 600 s deadline over the
\* 60 s cooldown), and a lookup is retried at most once.
C17_RetriesBounded ==
    fetch.pc # "none" =>
        /\ fetch.cooldowns <= 10
        /\ \A n \in DOMAIN fetch.looks : fetch.looks[n] - 1 <= 1

\* C17 witness: a provider that throttled every request was retried ten
\* times, and the search then stopped on the deadline.
C17_Witness ==
    /\ SearchFailed
    /\ fetch.err = WrapSearchErr(ErrDeadline)
    /\ fetch.cooldowns = 10
    /\ fetch.asked = {1}
    /\ fetch.q = 1

\* C18: a throttled lookup is followed by the cooldown and one retry of the
\* same lookup; the retry either yields the details or skips the repository;
\* no repository is looked up more than twice in a call.
C18_OneRetryThenSkip ==
    /\ [](fetch.pc # "none" =>
            /\ \A n \in DOMAIN fetch.looks : fetch.looks[n] <= 2
            /\ fetch.pc \in {"lookupCooldown", "retry"} => fetch.looks[fetch.cur] = 1)
    /\ [][fetch.pc = "lookupCooldown" =>
            /\ fetch'.pc = "retry"
            /\ fetch'.cur = fetch.cur
            /\ fetch'.clock = fetch.clock + 60]_vars
    /\ [][fetch.pc = "retry" =>
            /\ fetch'.looks[fetch.cur] = 2
            /\ \/ /\ fetch'.pc = "rest"
                  /\ Len(fetch'.projects) = Len(fetch.projects) + 1
                  /\ fetch'.projects[Len(fetch'.projects)].RepoFullName = fetch.cur
               \/ /\ fetch'.pc = "enrich"
                  /\ fetch.cur \in fetch'.skipped
                  /\ fetch.cur \in fetch'.done
                  /\ fetch'.projects = fetch.projects]_vars

\* C18 witness: the call has returned having looked one repository up twice
\* and skipped it, and another twice with success.
C18_Witness ==
    /\ fetch.pc = "returned"
    /\ fetch.err = ""
    /\ \E n \in fetch.skipped : fetch.looks[n] = 2
    /\ \E i \in 1..Len(fetch.projects) : fetch.looks[fetch.projects[i].RepoFullName] = 2

\* C20: a search that stops on a client error or on the deadline returns the
\* map it has accumulated together with the error; and once the deadline has
\* passed the search is over at that moment: it asks for no further page and
\* is not found still waiting, or returning, later than the deadline.
C20_SearchStopsAtCancellation ==
    /\ [](SearchFailed => (fetch.found = fetch.repos /\ fetch.err # ""))
    /\ []((Searching \/ SearchFailed) => fetch.clock <= RefreshTimeout)
    /\ [][(Searching /\ CtxDone(fetch.clock) /\ fetch'.pc # "none") =>
             fetch'.asked \subseteq fetch.asked]_vars

\* The full names of the Projects of a slice.
ProjectNames(ps) == {ps[i].RepoFullName : i \in 1..Len(ps)}

InBand(lo, hi) == {n \in DOMAIN qry.cat : qry.cat[n].stars \in lo..hi}

\* C21: whatever the catalog holds, GetStats returns the number of records,
\* the sum of their star counts (0 for none), the number of records with at
\* least 1000 stars and the number with 100 to 999 stars; no record is in
\* both bands, so the two counts together never exceed the total; stars
\* 1500, 300 and 50 give total 3, popular 1, notable 1.
C21_GetStatsCountsAndBands ==
    qry.out.op = "GetStats" =>
       LET st == qry.out.stats
           pop == {n \in DOMAIN qry.cat : qry.cat[n].stars >= 1000}
       IN /\ st.total_projects = Cardinality(DOMAIN qry.cat)
          /\ st.total_stars = qry.sum
          /\ (DOMAIN qry.cat = {} => st.total_stars = 0)
          /\ st.popular_count = Cardinality(pop)
          /\ st.notable_count = Cardinality(InBand(100, 999))
          /\ st.popular_count + st.notable_count
                = Cardinality(pop \cup InBand(100, 999))
          /\ st.popular_count + st.notable_count <= st.total_projects
          /\ ({qry.cat[n].stars : n \in DOMAIN qry.cat} = {1500, 300, 50}
                /\ Cardinality(DOMAIN qry.cat) = 3
              => st.total_projects = 3 /\ st.popular_count = 1
                 /\ st.notable_count = 1)

\* C21 witness: GetStats has answered on the catalog with stars 1500, 300
\* and 50.
C21_Witness ==
    /\ qry.out.op = "GetStats"
    /\ DOMAIN qry.cat = QueryRepos
    /\ {qry.cat[n].stars : n \in DOMAIN qry.cat} = {1500, 300, 50}
    /\ qry.out.stats.total_stars = 1850

\* C23: on every catalog and for every instant t, the count returned by
\* GetNewProjectsCount(t) is the length of the slice returned by
\* GetNewProjectsSince(t), and the slice holds, once each, exactly the
\* records first seen strictly later than t.
C23_NewCountEqualsNewSince ==
    qry.out.op = "GetNewProjects" =>
       LET ps == qry.out.projects
           later == {n \in DOMAIN qry.cat : qry.cat[n].first_seen_at >= qry.out.since + 1}
       IN /\ qry.out.count = Len(ps)
          /\ {ps[i] : i \in 1..Len(ps)} = later
          /\ Len(ps) = Cardinality(later)

\* C23 witness: both were asked for an instant at which one record was first
\* seen, with one record first seen later and one earlier.
C23_Witness ==
    /\ qry.out.op = "GetNewProjects"
    /\ qry.out.count = 1
    /\ \E n \in DOMAIN qry.cat : qry.cat[n].first_seen_at = qry.out.since
    /\ \E n \in DOMAIN qry.cat : qry.cat[n].first_seen_at < qry.out.since

\* The star count of a repository in the catalog, 0 when it has no record.
StarsOf(n) == IF n \in DOMAIN projects THEN projects[n].stars ELSE 0

\* C22: a snapshot row is appended only by a run at its snapshot step, the
\* rows before it stay, the catalog does not change in that step, and the
\* row holds the number of records, the star sum and the two band counts of
\* the catalog as it is then, which holds every record the run upserted.
C22_SnapshotEqualsStats ==
    [][snapshots' # snapshots =>
         /\ \E j \in DOMAIN runs :
               /\ runs[j].pc = "snapshot"
               /\ \A i \in 1..Len(runs[j].projects) :
                     LET p == runs[j].projects[i] IN
                     /\ p.RepoFullName \in DOMAIN projects
                     /\ projects[p.RepoFullName].stars = p.Stars
                     /\ projects[p.RepoFullName].last_seen_at = j
         /\ projects' = projects
         /\ Len(snapshots') = Len(snapshots) + 1
         /\ SubSeq(snapshots', 1, Len(snapshots)) = snapshots
         /\ LET row == snapshots'[Len(snapshots')] IN
            /\ row.total_projects = Cardinality(DOMAIN projects)
            /\ row.total_stars = StarsOf("a/x") + StarsOf("b/y")
            /\ row.popular_count =
                  Cardinality({n \in DOMAIN projects : projects[n].stars >= 1000})
            /\ row.notable_count =
                  Cardinality({n \in DOMAIN projects : projects[n].stars \in 100..999})]_vars

\* C22 witness: the second run has recorded its snapshot on a catalog of two
\* records, one of them upserted by the first run only.
C22_Witness ==
    /\ Len(snapshots) = 2
    /\ At(2, "defer")
    /\ runs[2].snap
    /\ Len(runs[2].projects) = 1
    /\ snapshots[2].total_projects = 2
    /\ snapshots[2].total_stars = 1800
    /\ snapshots[2].popular_count = 1
    /\ snapshots[2].notable_count = 1

\* A string of one or more digits followed by one of the units d, w, h.
WellFormedDuration(str) ==
    /\ Len(str) >= 2
    /\ str[Len(str)] \in {"d", "w", "h"}
    /\ \A i \in 1..(Len(str) - 1) : IsDigit(str[i])

HoursPerUnit(u) == CASE u = "d" -> 24 [] u = "w" -> 168 [] u = "h" -> 1

\* C24: parseDuration returns no error exactly for the strings <n>d, <n>w,
\* <n>h with n a string of digits, then with n times 24, 168 or 1 hours;
\* every other string (empty, one character, unknown unit, non-numeric or
\* signed value) is rejected, and no returned duration is negative.
C24_ParseDurationAcceptsExactly ==
    dur.pc = "returned" =>
       /\ (dur.res.err = "") <=> WellFormedDuration(dur.s)
       /\ WellFormedDuration(dur.s) =>
             dur.res.hours = Decimal(SubSeq(dur.s, 1, Len(dur.s) - 1))
                                * HoursPerUnit(dur.s[Len(dur.s)])
       /\ dur.res.hours >= 0
       /\ (dur.s = <<"7", "d">> => dur.res.hours = 168)
       /\ (dur.s = <<"2", "w">> => dur.res.hours = 336)
       /\ (dur.s = <<"3", "h">> => dur.res.hours = 3)

\* C25: for a file with exactly one commit, GetFileFirstCommit makes one
\* request only, and when that request is answered it returns the commit's
\* date, SHA and link.
C25_SingleCommitOneRequest ==
    (hist.pc # "none" /\ hist.k = 1) =>
       /\ hist.pc # "page"
       /\ Len(hist.requests) <= 1
       /\ (hist.pc = "returned" /\ hist.err # ErrAPI) =>
             /\ hist.err = ""
             /\ hist.requests = <<1>>
             /\ hist.res = [Date |-> 1, CommitSHA |-> 1, CommitURL |-> 1]

\* C25 witness: the call for a file with one commit has returned it.
C25_Witness ==
    /\ hist.pc = "returned"
    /\ hist.k = 1
    /\ hist.err = ""
    /\ hist.res.CommitSHA = 1

\* C26: for a file with 2 to 100 commits and a provider that truncates to the
\* requested page size, a call that returns without error has made the two
\* requests, the second with page size 100, and returns the oldest commit.
C26_OldestOfSecondPage ==
    (hist.pc = "returned" /\ hist.honours /\ hist.k \in 2..100 /\ hist.err = "") =>
       /\ hist.requests = <<1, 100>>
       /\ hist.res.CommitSHA = 1

\* C27: every response of the status endpoint reports is_running = true
\* exactly when the latest job record it carries is 'pending' or 'running'.
C27_StatusMatchesJobTable ==
    status.resp.last_job # "unanswered" =>
       (status.resp.is_running <=> status.resp.last_job \in {"pending", "running"})

\* What a trigger of origin o answers when it could not create its job.
FailureBody(o) == IF o = "manual" THEN MsgInternalError ELSE RetFalse

\* The trigger call of origin o is between taking the flag and returning.
Holding(o) == hpc[o] \in {"create", "unflag"}

\* C28: while a trigger call holds the flag it took, the flag is set and no
\* run is alive, and no step changes the job table, the catalog or the
\* snapshots, but the step that creates its job; when CreateRefreshJob fails
\* the call goes on to its error path, which (unless the process dies first)
\* clears the flag and answers with the failure, launching no run: the flag,
\* the tables and the runs are then as they were when the trigger came.
C28_FailedCreateRestoresState ==
    /\ [](\A o \in Origins : Holding(o) =>
            /\ refreshRunning
            /\ DOMAIN runs = {}
            /\ \A p \in Origins \ {o} : hpc[p] = "idle")
    /\ [][\A o \in Origins :
            /\ (hpc[o] = "idle" /\ hpc'[o] = "create") =>
                  ~refreshRunning /\ DOMAIN runs = {}
            /\ (Holding(o) /\ jobs' = jobs) =>
                  /\ <<projects, snapshots>>' = <<projects, snapshots>>
                  /\ DOMAIN runs' = {}
            /\ (hpc[o] = "create" /\ hpc'[o] # "create" /\ jobs' = jobs) =>
                  /\ reply' = NoReply
                  /\ hpc'[o] = "unflag" \/ (hpc'[o] = "idle" /\ ~refreshRunning')
            /\ (hpc[o] = "unflag" /\ hpc'[o] # "unflag") =>
                  /\ hpc'[o] = "idle"
                  /\ ~refreshRunning'
                  /\ jobs' = jobs
                  /\ reply' \in {Response(o, FailureBody(o)), NoReply}
                  /\ reply' = NoReply => \A p \in Origins : hpc'[p] = "idle"]_vars
    /\ [][\A o \in Origins :
            reply' = Response(o, FailureBody(o)) /\ hpc[o] = "unflag" =>
               /\ ~refreshRunning'
               /\ <<jobs, projects, snapshots, runs>>' = <<jobs, projects, snapshots, runs>>]_vars

\* C28 witness: the manual trigger has just answered 'Internal server
\* error': no job row, no run, the flag clear.
C28_Witness ==
    /\ reply = Response("manual", MsgInternalError)
    /\ ~refreshRunning
    /\ jobs = <<>>
    /\ DOMAIN runs = {}

\* The trigger call of origin o takes a step: it declines, or it moves on
\* (a return to idle is the call's own step when it answers).
TriggerStep(o) ==
    \/ hpc[o] = "idle" /\ reply'.origin = o
    \/ hpc'[o] # hpc[o] /\ (hpc'[o] = "idle" => reply'.origin = o)

\* C29: every step of a trigger call, manual or scheduled, changes the flag,
\* the job table, the catalog, the snapshots and the runs in the way its
\* position and the store's answer alone determine: declined, nothing;
\* accepted, the flag; job created, one new 'pending' row and one new run;
\* creation failed, nothing, then the flag cleared. Whenever both origins
\* are idle, one can attempt exactly when the other can.
C29_TriggersEquivalentOnState ==
    /\ [][\A o \in Origins : TriggerStep(o) =>
            CASE hpc[o] = "idle" /\ refreshRunning ->
                    /\ hpc'[o] = "idle"
                    /\ <<refreshRunning, jobs, projects, snapshots, runs>>'
                          = <<refreshRunning, jobs, projects, snapshots, runs>>
              [] hpc[o] = "idle" /\ ~refreshRunning ->
                    /\ hpc'[o] = "create"
                    /\ refreshRunning'
                    /\ <<jobs, projects, snapshots, runs>>'
                          = <<jobs, projects, snapshots, runs>>
              [] hpc[o] = "create" ->
                    /\ <<refreshRunning, projects, snapshots>>'
                          = <<refreshRunning, projects, snapshots>>
                    /\ \/ /\ hpc'[o] = "idle"
                          /\ Len(jobs') = Len(jobs) + 1
                          /\ SubSeq(jobs', 1, Len(jobs)) = jobs
                          /\ jobs'[Len(jobs')].status = "pending"
                          /\ DOMAIN runs' = DOMAIN runs \cup {Len(jobs')}
                          /\ runs'[Len(jobs')] = NewRun
                          /\ \A j \in DOMAIN runs : runs'[j] = runs[j]
                       \/ /\ hpc'[o] = "unflag"
                          /\ <<jobs, runs>>' = <<jobs, runs>>
              [] hpc[o] = "unflag" ->
                    /\ hpc'[o] = "idle"
                    /\ ~refreshRunning'
                    /\ <<jobs, projects, snapshots, runs>>'
                          = <<jobs, projects, snapshots, runs>>]_vars
    /\ []((\A o \in Origins : hpc[o] = "idle") =>
             (ENABLED handleRefresh_Check <=> ENABLED TriggerRefresh_Check))

\* C29 witness: after a run started by one trigger has ended, the scheduled
\* trigger has just been accepted: a second job row and its run.
C29_Witness ==
    /\ reply = Response("scheduled", RetTrue)
    /\ Len(jobs) = 2
    /\ jobs[1].status = "completed"
    /\ jobs[2].status = "pending"
    /\ DOMAIN runs = {2}
    /\ refreshRunning

\* C30: no handler and no run performs a store or network operation while it
\* holds refreshMu; the trigger returns in the step that starts the
\* goroutine, before the run has done anything; and a trigger, status or
\* listing request that is under way always completes, however long the run
\* stays in its fetch or in the store.
C30_RequestsNeverWaitForRun ==
    /\ [](lk.across = {})
    /\ [](lk.mu \in Requests =>
             lk.pc[lk.mu] \in {"locked", "set", "clearing"})
    /\ [][\A o \in Origins :
            (lk.pc[o] = "go" /\ lk'.pc[o] = "idle") =>
               lk.run = "none" /\ lk'.run = "start"]_vars
    /\ \A p \in Requests : (lk.pc[p] # "idle") ~> (lk.pc[p] = "idle")

\* C30 witness: while the run is in FetchAllProjects, a status request has
\* taken the mutex, both triggers wait for it and a listing request is under
\* way.
C30_Witness ==
    /\ lk.run = "fetch"
    /\ lk.flag
    /\ lk.mu = "status"
    /\ \A o \in Origins : lk.pc[o] = "lock"
    /\ lk.pc["list"] = "query"

\* C31: when an iteration of the enrichment loop ends and another repository
\* is still to be looked up (the deadline not passed), at least the
\* inter-request delay has gone by since the lookup; and the delay after an
\* append lasts that long.
C31_DelayBetweenLookups ==
    /\ [][(/\ fetch.pc \in {"lookup", "retry"}
           /\ fetch'.pc = "enrich"
           /\ DOMAIN fetch'.repos \ fetch'.done # {}
           /\ ~CtxDone(fetch'.clock)) =>
             fetch'.clock >= fetch.clock + LookupDelay]_vars
    /\ [][fetch.pc = "rest" /\ fetch'.pc = "enrich" =>
             fetch'.clock = fetch.clock + LookupDelay]_vars

\* C32: a search request is never followed at once by another: after a
\* request the search is in a delay, in the cooldown or has returned, and
\* every later request comes after the search delay (next page, next
\* query) or after the cooldown (the same page again) has gone by.
C32_SearchRequestsSpaced ==
    /\ [][(fetch.pc = "search" /\ fetch'.pc # "none") =>
             fetch'.pc \in {"pageDelay", "queryDelay", "cooldown", "returned"}]_vars
    /\ [][(fetch.pc \in {"pageDelay", "queryDelay", "cooldown"}
             /\ fetch'.pc \in {"search", "enrich"}) =>
             /\ fetch.pc = "pageDelay" =>
                   /\ fetch'.clock = fetch.clock + searchRateDelay
                   /\ fetch'.q = fetch.q /\ fetch'.page = fetch.page + 1
             /\ fetch.pc = "queryDelay" =>
                   /\ fetch'.clock = fetch.clock + searchRateDelay
                   /\ fetch'.page = 1
                   /\ fetch'.pc = "search" => fetch'.q = fetch.q + 1
             /\ fetch.pc = "cooldown" =>
                   /\ fetch'.clock = fetch.clock + ThrottleCooldown
                   /\ fetch'.q = fetch.q /\ fetch'.page = fetch.page]_vars
    /\ [](fetch.pc = "search" =>
             fetch.clock >= (fetch.q - 1) * searchRateDelay
                              + (fetch.page - 1) * searchRateDelay
                              + fetch.cooldowns * ThrottleCooldown)

\* C32 witness: the second page of the second query is about to be asked
\* for, after one cooldown: two search delays and the cooldown have gone by.
C32_Witness ==
    /\ fetch.pc = "search"
    /\ fetch.q = 2
    /\ fetch.page = 2
    /\ fetch.cooldowns = 1
    /\ fetch.clock = 2 * searchRateDelay + ThrottleCooldown

\* C33: a first request's response leads to the cooldown exactly when its
\* status is 403; a response with any other status than 200 and 403 is an
\* ordinary error whatever its body: the search returns the error, a lookup
\* or its retry leaves out the one repository, and no cooldown is taken.
C33_ThrottledOnlyOn403 ==
    /\ [][(rsp.pc \in {"search", "lookup"} /\ rsp'.pc # rsp.pc) =>
             (rsp'.pc \in {"searchCooldown", "lookupCooldown"} <=> rsp'.st = 403)]_vars
    /\ [][(/\ rsp.pc \in {"search", "lookup", "retry"}
           /\ rsp'.pc # rsp.pc
           /\ rsp'.st \notin {200, 403}) =>
             /\ rsp'.cooldowns = rsp.cooldowns
             /\ IF rsp.pc = "search"
                THEN rsp'.pc = "returned" /\ rsp'.err # <<>>
                ELSE /\ rsp'.pc = "enrich"
                     /\ rsp'.skipped = rsp.skipped \cup {rsp.cur}
                     /\ rsp'.err = <<>>]_vars

\* The searched names of the repositories in the slice ps.
Searched(ps) == {ps[i].repo : i \in 1..Len(ps)}

\* The latest response is a 200 whose body does not parse.
Malformed(r) == r.st = 200 /\ Unmarshal(r.body) # <<>>

\* C34: a 200 response whose body does not parse ends the search with the
\* parse error, no project built, and the run then marks the job failed
\* with nothing upserted; in a lookup or its retry it leaves out that one
\* repository, with no error and no cooldown, and the run that reached the
\* lookups never fails: it completes with every repository that was not
\* left out upserted.
C34_MalformedPayload ==
    /\ [][(rsp.pc = "search" /\ rsp'.pc # "search" /\ Malformed(rsp')) =>
             /\ rsp'.pc = "returned"
             /\ rsp'.err = ErrSyntax
             /\ rsp'.projects = <<>>]_vars
    /\ [][(rsp.pc = "returned" /\ rsp.err # <<>>) =>
             rsp'.job = "failed" /\ rsp'.upserted = {}]_vars
    /\ [](rsp.job = "failed" => rsp.upserted = {})
    /\ [][(rsp.pc \in {"lookup", "retry"} /\ rsp'.pc # rsp.pc /\ Malformed(rsp')) =>
             /\ rsp'.pc = "enrich"
             /\ rsp'.skipped = rsp.skipped \cup {rsp.cur}
             /\ rsp'.projects = rsp.projects
             /\ rsp'.done = rsp.done \cup {rsp.cur}
             /\ rsp'.err = <<>>
             /\ rsp'.cooldowns = rsp.cooldowns]_vars
    /\ [][rsp.pc \in {"enrich", "lookup", "lookupCooldown", "retry"} =>
             rsp'.err = <<>> /\ rsp'.job # "failed"]_vars
    /\ [](rsp.job = "completed" =>
             /\ Searched(rsp.projects) = ResponseRepos \ rsp.skipped
             /\ rsp.done = ResponseRepos)

\* C34 witness: a run completed after the lookup of b/y was answered with a
\* 200 that does not parse: a/x alone was handed to the store and written.
C34_Witness ==
    /\ rsp.job = "completed"
    /\ Malformed(rsp)
    /\ rsp.skipped = {"b/y"}
    /\ Searched(rsp.projects) = {"a/x"}
    /\ rsp.upserted = {"a/x"}

\* C35: the found-count of a completed job is the number of distinct
\* records the run inserted or updated in the catalog.
C35_FoundCountIsRecordsWritten ==
    rsp.job = "completed" => rsp.found = Cardinality(rsp.upserted)

\* C36: the numbers of a stats response fit one catalog: the records counted
\* as popular and as notable are together no more than the total.
C36_StatsOfOneCatalog ==
    rd.pc = "done" => rd.popular + rd.notable <= rd.total

\* The last call of UpsertProject met a row of its repository.
HitExisting ==
    /\ up.calls # <<>>
    /\ Conflicts(up.prev, up.calls[Len(up.calls)].p.RepoFullName) # {}

\* C37: a call that meets a row of its repository leaves the table with the
\* same rows in the same places (the place of a row is its id); in that row
\* stars, description, primary language, file path, file URL and match
\* category are those of the call and last-seen and updated-at its time,
\* while name, URL, first-seen and created-at are as before; every other
\* row is as before; and no row is last seen before it was first seen.
C37_ConflictOverwritesListedFields ==
    /\ HitExisting =>
          LET c == up.calls[Len(up.calls)] IN
          /\ up.err = ""
          /\ Len(up.rows) = Len(up.prev)
          /\ \A i \in 1..Len(up.prev) :
                IF up.prev[i].repo_full_name = c.p.RepoFullName
                THEN up.rows[i] =
                       [repo_full_name |-> up.prev[i].repo_full_name,
                        github_url |-> up.prev[i].github_url,
                        first_seen_at |-> up.prev[i].first_seen_at,
                        created_at |-> up.prev[i].created_at,
                        stars |-> c.p.Stars,
                        description |-> c.p.Description,
                        primary_language |-> c.p.PrimaryLanguage,
                        dockerfile_path |-> c.p.DockerfilePath,
                        file_url |-> c.p.FileURL,
                        source_type |-> c.p.SourceType,
                        last_seen_at |-> c.at,
                        updated_at |-> c.at]
                ELSE up.rows[i] = up.prev[i]
    /\ \A i \in 1..Len(up.rows) :
          up.rows[i].last_seen_at >= up.rows[i].first_seen_at

\* C37 witness: a repository's row, first in a table of two, was met by a
\* call a second after the last, with another URL, other stars and another
\* matched file than the row had.
C37_Witness ==
    /\ HitExisting
    /\ Len(up.prev) = 2
    /\ LET c == up.calls[Len(up.calls)] IN
       /\ up.prev[1].repo_full_name = c.p.RepoFullName
       /\ up.prev[1].github_url # c.p.GitHubURL
       /\ up.prev[1].stars # c.p.Stars
       /\ up.prev[1].source_type # c.p.SourceType
       /\ up.prev[1].last_seen_at < c.at

====
